---------------------------- MODULE Spec2Model ----------------------------
(***************************************************************************)
(* Model of the event buffering and cross-board synchronization core of   *)
(* the DT5743 readout program (Readout_DT5743): the per-board circular    *)
(* event buffers of WDBuffers.c and the event processing of WaveDemo.c.   *)
(***************************************************************************)
EXTENDS Integers, Sequences, FiniteSets, TLC

(***************************************************************************)
(* Sizes.  The program is built with EVT_BUF_SIZE = 2000 slots per board  *)
(* and boards of 16 channels; the model keeps the same code with small    *)
(* sizes so that wrap-around, full and empty buffers are all reached.     *)
(***************************************************************************)
EVT_BUF_SIZE == 4

\* WDcfg.NumBoards: the acquisition runs with two boards
NumBoards == 2

\* WDcfg.handles[bd].Nch: channels of a board (16 or 8 in the program)
Nch == 2

SYNC_WIN == 100

\* largest count handed to WDBuff_added / WDBuff_remove by the API driver
MaxNum == 4

\* events a producer commits to one board in the producer/consumer runs
MaxCommits == 6

\* most events one board hands over in one block transfer (1000 in the program,
\* less than the EVT_BUF_SIZE - 1 events a buffer holds)
MAX_NUM_EVENTS_BLT == 2

\* events read from all boards together in one run of the acquisition loop
MaxEvents == 4

Boards == 0 .. (NumBoards - 1)

Channels == 0 .. (Nch - 1)

Groups == 0 .. ((Nch - 1) \div 2)

Slots == 0 .. (EVT_BUF_SIZE - 1)

\* a null pointer (WDbuff.buffer[bd] before allocation, RefEvent when cleared)
NULL == <<>>

\* the coarse time stamps (5 ns ticks) the boards deliver in the model
Ticks == {0, 20, 41}

\* a decoded event: the TDC of each channel group
ZeroEvent == [TDC |-> [g \in Groups |-> 0]]

\* the memory of one board after malloc + memset(0): slot i is buffer[bd][i+1]
ZeroSlots == [i \in 1 .. EVT_BUF_SIZE |-> ZeroEvent]

VARIABLES
    WDbuff,     \* WaveDemoBuffers_t: buffer, head, tail, tmp_pos per board
    WDstats,    \* WaveDemoStats_t: the event counters
    WDcfg,      \* WaveDemoConfig_t: ChannelEnable, RefChannel, TOFstartBoard, NumEvents, RefEvent
    pc,         \* position of the program
    loc,        \* locals of the function being executed
    op,         \* the last call made and what it returned
    MsgLog,     \* number of "events unsynchronized" warnings written to the log
    hw,         \* the boards: the time stamp counter (ticks) of each, and the
                \* events each has acquired and not yet handed over
    NoFine,     \* per channel, the matched events eliminated for FineTimeStamp == 0
    WDrun       \* WaveDemoRun_t: AcqRun, IntegratedRates

vars == <<WDbuff, WDstats, WDcfg, pc, loc, op, MsgLog, hw, NoFine, WDrun>>

-----------------------------------------------------------------------------
(***************************************************************************)
(* WDBuffers.c                                                            *)
(***************************************************************************)

WDBuff_reset(buff, bd) ==
    IF buff.buffer[bd] = NULL
    THEN [buff |-> buff, ret |-> -1]
    ELSE [buff |-> [buff EXCEPT !.head[bd] = 0, !.tail[bd] = 0, !.tmp_pos[bd] = 0],
          ret |-> 0]

WDBuff_empty(buff, bd) ==
    IF buff.head[bd] = buff.tail[bd] THEN 1 ELSE 0

WDBuff_full_never(buff, bd) ==
    0

WDBuff_full(buff, bd) ==
    IF ((buff.head[bd] + 1) % EVT_BUF_SIZE) = buff.tail[bd] THEN 1 ELSE 0

WDBuff_free_space_nofull(buff, bd) ==
    IF buff.head[bd] >= buff.tail[bd]
    THEN EVT_BUF_SIZE - (buff.head[bd] - buff.tail[bd])
    ELSE buff.tail[bd] - buff.head[bd] - 1

WDBuff_free_space(buff, bd) ==
    IF WDBuff_full(buff, bd) = 1
    THEN 0
    ELSE IF buff.head[bd] >= buff.tail[bd]
         THEN EVT_BUF_SIZE - 1 - (buff.head[bd] - buff.tail[bd])
         ELSE buff.tail[bd] - buff.head[bd] - 1

WDBuff_used_space(buff, bd) ==
    IF buff.head[bd] >= buff.tail[bd]
    THEN buff.head[bd] - buff.tail[bd]
    ELSE EVT_BUF_SIZE - buff.tail[bd] + buff.head[bd]

\* the for loop of WDBuff_remove, entered with i iterations done
RECURSIVE RemoveLoop(_, _, _, _)
RemoveLoop(buff, bd, num, i) ==
    IF i < num /\ WDBuff_empty(buff, bd) = 0
    THEN RemoveLoop([buff EXCEPT !.tail[bd] = (@ + 1) % EVT_BUF_SIZE], bd, num, i + 1)
    ELSE [buff |-> buff, ret |-> i]

WDBuff_remove_unchecked(buff, bd, num) ==
    IF buff.buffer[bd] = NULL \/ num < 0
    THEN [buff |-> buff, ret |-> -1]
    ELSE [buff |-> [buff EXCEPT !.tail[bd] = (@ + num) % EVT_BUF_SIZE], ret |-> num]

WDBuff_remove(buff, bd, num) ==
    IF buff.buffer[bd] = NULL \/ num < 0
    THEN [buff |-> buff, ret |-> -1]
    ELSE RemoveLoop(buff, bd, num, 0)

WDBuff_get_write_pointer_nofull(buff, bd) ==
    IF buff.buffer[bd] = NULL
    THEN [ret |-> -1, slot |-> -1]
    ELSE [ret |-> 0, slot |-> buff.head[bd]]

\* ret = 0: *event = &buffer[bd][head], given as the slot index
WDBuff_get_write_pointer(buff, bd) ==
    IF buff.buffer[bd] = NULL \/ WDBuff_full(buff, bd) = 1
    THEN [ret |-> -1, slot |-> -1]
    ELSE [ret |-> 0, slot |-> buff.head[bd]]

\* the for loop of WDBuff_added, entered with i iterations done
RECURSIVE AddedLoop(_, _, _, _)
AddedLoop(buff, bd, num, i) ==
    IF i < num /\ WDBuff_full(buff, bd) = 0
    THEN AddedLoop([buff EXCEPT !.head[bd] = (@ + 1) % EVT_BUF_SIZE], bd, num, i + 1)
    ELSE [buff |-> buff, ret |-> i]

WDBuff_added_unchecked(buff, bd, num) ==
    IF buff.buffer[bd] = NULL \/ num < 0
    THEN [buff |-> buff, ret |-> -1]
    ELSE [buff |-> [buff EXCEPT !.head[bd] = (@ + num) % EVT_BUF_SIZE], ret |-> num]

WDBuff_added(buff, bd, num) ==
    IF buff.buffer[bd] = NULL \/ num < 0
    THEN [buff |-> buff, ret |-> -1]
    ELSE AddedLoop(buff, bd, num, 0)

\* ret = 0: *event = &buffer[bd][tail], given as the slot index
WDBuff_peak_newest(buff, bd) ==
    IF buff.buffer[bd] = NULL \/ WDBuff_empty(buff, bd) = 1
    THEN [ret |-> -1, slot |-> -1]
    ELSE [ret |-> 0, slot |-> (buff.head[bd] + EVT_BUF_SIZE - 1) % EVT_BUF_SIZE]

WDBuff_peak_unchecked(buff, bd) ==
    IF buff.buffer[bd] = NULL
    THEN [ret |-> -1, slot |-> -1]
    ELSE [ret |-> 0, slot |-> buff.tail[bd]]

WDBuff_peak(buff, bd) ==
    IF buff.buffer[bd] = NULL \/ WDBuff_empty(buff, bd) = 1
    THEN [ret |-> -1, slot |-> -1]
    ELSE [ret |-> 0, slot |-> buff.tail[bd]]

WDBuff_set_position(buff, bd, pos) ==
    IF buff.buffer[bd] = NULL \/ WDBuff_empty(buff, bd) = 1
    THEN [buff |-> buff, ret |-> -1]
    ELSE IF pos < 0 \/ pos >= EVT_BUF_SIZE
    THEN [buff |-> buff, ret |-> -1]
    ELSE IF pos >= buff.head[bd] \/ pos < buff.tail[bd]
    THEN [buff |-> buff, ret |-> -1]
    ELSE [buff |-> [buff EXCEPT !.tmp_pos[bd] = pos], ret |-> 0]

WDBuff_get_next_noadvance(buff, bd) ==
    IF buff.buffer[bd] = NULL \/ WDBuff_empty(buff, bd) = 1
    THEN [buff |-> buff, ret |-> -1, slot |-> -1]
    ELSE IF buff.tmp_pos[bd] = buff.head[bd]
    THEN [buff |-> buff, ret |-> -1, slot |-> -1]
    ELSE [buff |-> buff, ret |-> 0, slot |-> buff.tmp_pos[bd]]

WDBuff_get_next(buff, bd) ==
    IF buff.buffer[bd] = NULL \/ WDBuff_empty(buff, bd) = 1
    THEN [buff |-> buff, ret |-> -1, slot |-> -1]
    ELSE IF buff.tmp_pos[bd] = buff.head[bd]
    THEN [buff |-> buff, ret |-> -1, slot |-> -1]
    ELSE [buff |-> [buff EXCEPT !.tmp_pos[bd] = (@ + 1) % EVT_BUF_SIZE],
          ret |-> 0, slot |-> buff.tmp_pos[bd]]

\* the event stored in slot i of board bd
SlotEvent(buff, bd, i) == buff.buffer[bd][i + 1]

\* the caller stores a decoded event through the pointer it was given
StoreEvent(buff, bd, i, ev) ==
    [buff EXCEPT !.buffer[bd][i + 1] = ev]

-----------------------------------------------------------------------------
(***************************************************************************)
(* The state before main() has allocated anything: the globals are zero.  *)
(***************************************************************************)
InitBuff ==
    [buffer  |-> [bd \in Boards |-> NULL],
     head    |-> [bd \in Boards |-> 0],
     tail    |-> [bd \in Boards |-> 0],
     tmp_pos |-> [bd \in Boards |-> 0]]

ZeroCnt == [bd \in Boards |-> [ch \in Channels |-> 0]]

\* WDrun while the acquisition runs, with the rates mode main() starts with
Running == [AcqRun |-> 1, IntegratedRates |-> 0]

\* the boards when the acquisition starts
InitBoards ==
    [clock   |-> [bd \in Boards |-> 0],
     pending |-> [bd \in Boards |-> <<>>]]

\* a float array of WDstats after memset(0)
ZeroRate == [bd \in Boards |-> [ch \in Channels |-> [n |-> 0, d |-> 1]]]

\* WDstats after memset(&WDstats, 0, sizeof(WDstats))
InitStats ==
    [RxByte_cnt            |-> 0,
     RxByte_pcnt           |-> 0,
     RxByte_rate           |-> [n |-> 0, d |-> 1],
     BlockRead_cnt         |-> 0,
     EvRead_cnt            |-> ZeroCnt,
     EvRead_pcnt           |-> ZeroCnt,
     EvRead_dcnt           |-> ZeroCnt,
     EvRead_rate           |-> ZeroRate,
     EvProcessed_cnt       |-> ZeroCnt,
     EvProcessed_pcnt      |-> ZeroCnt,
     EvInput_cnt           |-> ZeroCnt,
     EvInput_pcnt          |-> ZeroCnt,
     EvInput_rate          |-> ZeroRate,
     EvFilt_cnt            |-> ZeroCnt,
     EvFilt_pcnt           |-> ZeroCnt,
     EvFilt_rate           |-> ZeroRate,
     EvLost_cnt            |-> ZeroCnt,
     EvLost_pcnt           |-> ZeroCnt,
     EvLost_rate           |-> ZeroRate,
     DeadTime              |-> ZeroRate,
     MatchingRatio         |-> ZeroRate,
     EvOutput_rate         |-> ZeroRate,
     BusyTimeGap           |-> ZeroCnt,
     BusyTime              |-> ZeroRate,
     TotEvRead_cnt         |-> 0,
     UnSyncEv_cnt          |-> 0,
     StartTime             |-> 0,
     LastUpdateTime        |-> 0,
     AcqRealTime           |-> [n |-> 0, d |-> 1],
     RealTimeSource        |-> 0,
     LatestProcTstampAll   |-> 0,
     PrevProcTstampAll     |-> 0,
     LatestReadTstamp      |-> ZeroCnt,
     PrevReadTstamp        |-> ZeroCnt,
     LatestProcTstamp      |-> ZeroCnt,
     PrevProcTstamp        |-> ZeroCnt,
     ICRUpdateTime         |-> ZeroCnt,
     PrevICRUpdateTime     |-> ZeroCnt,
     LostTrgUpdateTime     |-> ZeroCnt,
     PrevLostTrgUpdateTime |-> ZeroCnt]

\* the first enabled channel of a board (SetRefCh); 0 when none is enabled
FirstEnabled(en) ==
    IF \E ch \in Channels : en[ch]
    THEN CHOOSE ch \in Channels : en[ch] /\ \A c \in Channels : c < ch => ~en[c]
    ELSE 0

\* the configurations main() accepts: board 0 has an enabled reference channel
\* (CheckRefCh) and the TOF start board is one of the boards
Configs ==
    { [ChannelEnable |-> en,
       RefChannel    |-> [bd \in Boards |-> FirstEnabled(en[bd])],
       TOFstartBoard |-> tb,
       NumEvents     |-> [bd \in Boards |-> 0],
       RefEvent      |-> [bd \in Boards |-> NULL]] :
      en \in { e \in [Boards -> [Channels -> BOOLEAN]] :
                 \/ \A bd \in Boards : \A ch \in Channels : e[bd][ch]
                 \/ \A bd \in Boards : \A ch \in Channels : e[bd][ch] <=> (ch = bd % Nch) },
      tb \in {0} }

NoOp == [name |-> "none", bd |-> 0, arg |-> 0, ret |-> 0, slot |-> -1]

Call(name, bd, arg, ret, slot) ==
    [name |-> name, bd |-> bd, arg |-> arg, ret |-> ret, slot |-> slot]

Init ==
    /\ WDbuff = InitBuff
    /\ WDstats = InitStats
    /\ WDcfg \in { c \in Configs : \A bd \in Boards : \A ch \in Channels : c.ChannelEnable[bd][ch] }
    /\ pc = "api"
    /\ loc \in { [bd |-> b] : b \in Boards }
    /\ op = NoOp
    /\ MsgLog = 0
    /\ hw = InitBoards
    /\ NoFine = ZeroCnt
    /\ WDrun = Running

\* AllocateEventBuffer: malloc, memset and WDBuff_reset for each board in turn;
\* a failing malloc (board k) leaves that board and the following ones NULL
AllocateEventBuffer(k) ==
    [buffer  |-> [bd \in Boards |-> IF bd < k THEN ZeroSlots ELSE NULL],
     head    |-> [bd \in Boards |-> 0],
     tail    |-> [bd \in Boards |-> 0],
     tmp_pos |-> [bd \in Boards |-> 0]]

-----------------------------------------------------------------------------
(***************************************************************************)
(* WaveDemo.c: decoding of the events read from the boards.               *)
(***************************************************************************)
\* the events one board can deliver: a trigger latches the same TDC in every
\* channel group of the board
InputEvents == { [TDC |-> [g \in Groups |-> t]] : t \in Ticks }

\* what one ReadData can bring from a board whose time stamp counter stands at
\* t0: up to MAX_NUM_EVENTS_BLT events with non-decreasing time stamps
InputBlocks(t0) ==
    { b \in UNION { [1 .. n -> InputEvents] : n \in 0 .. MAX_NUM_EVENTS_BLT } :
        \A k \in 1 .. Len(b) :
            b[k].TDC[0] >= (IF k = 1 THEN t0 ELSE b[k - 1].TDC[0]) }

\* the time stamp counters after the boards delivered input
ClockAfter(clk, input) ==
    [bd \in Boards |-> IF Len(input[bd]) = 0 THEN clk[bd]
                        ELSE input[bd][Len(input[bd])].TDC[0]]

\* adds n to the counter cnt[bd][ch] of every channel ch of board bd in chs
AddCnt(cnt, bd, chs, n) ==
    [cnt EXCEPT ![bd] = [ch \in Channels |-> IF ch \in chs THEN cnt[bd][ch] + n ELSE cnt[bd][ch]]]

Enabled(cfg, bd) == { ch \in Channels : cfg.ChannelEnable[bd][ch] }

\* MakeSpaceBuffers, boards bd .. NumBoards-1 still to do
RECURSIVE MakeSpaceLoop(_, _, _, _)
MakeSpaceLoop(buff, stats, cfg, bd) ==
    IF bd >= NumBoards
    THEN [buff |-> buff, stats |-> stats, ret |-> 1]
    ELSE IF WDBuff_free_space(buff, bd) < cfg.NumEvents[bd]
    THEN LET r == WDBuff_remove(buff, bd, cfg.NumEvents[bd]) IN
         IF r.ret < 0
         THEN [buff |-> r.buff, stats |-> stats, ret |-> -1]
         ELSE MakeSpaceLoop(r.buff,
                            [stats EXCEPT
                               !.EvLost_cnt = AddCnt(@, bd, Channels, r.ret),
                               !.EvProcessed_cnt = AddCnt(@, bd, Channels, r.ret)],
                            cfg, bd + 1)
    ELSE MakeSpaceLoop(buff, stats, cfg, bd + 1)

\* MakeSpaceBuffers that removes nothing
MakeSpaceBuffers_none(buff, stats, cfg) == [buff |-> buff, stats |-> stats, ret |-> 1]

\* MakeSpaceBuffers without lines 782-786: the events removed are not counted
MakeSpaceBuffers_uncounted(buff, stats, cfg) ==
    [MakeSpaceLoop(buff, stats, cfg, 0) EXCEPT !.stats = stats]

MakeSpaceBuffers(buff, stats, cfg) == MakeSpaceLoop(buff, stats, cfg, 0)

\* the event loop of EventsDecoding for board bd, events k .. Len(block) to do
RECURSIVE DecodeLoop(_, _, _, _)
DecodeLoop(buff, bd, block, k) ==
    IF k > Len(block)
    THEN [buff |-> buff, err |-> "ERR_NONE"]
    ELSE LET w == WDBuff_get_write_pointer(buff, bd) IN
         IF w.ret < 0
         THEN [buff |-> buff, err |-> "ERR_BUFFERS"]
         ELSE LET a == WDBuff_added(StoreEvent(buff, bd, w.slot, block[k]), bd, 1) IN
              IF a.ret # 1
              THEN [buff |-> a.buff, err |-> "ERR_BUFFERS"]
              ELSE DecodeLoop(a.buff, bd, block, k + 1)

\* the board loop of EventsDecoding, boards bd .. NumBoards-1 still to do
RECURSIVE DecodeBoards(_, _, _, _, _)
DecodeBoards(buff, stats, cfg, input, bd) ==
    IF bd >= NumBoards
    THEN [buff |-> buff, stats |-> stats, err |-> "ERR_NONE"]
    ELSE IF cfg.NumEvents[bd] = 0
    THEN DecodeBoards(buff, stats, cfg, input, bd + 1)
    ELSE LET d == DecodeLoop(buff, bd, input[bd], 1) IN
         IF d.err # "ERR_NONE"
         THEN [buff |-> d.buff, stats |-> stats, err |-> d.err]
         ELSE DecodeBoards(d.buff,
                           [stats EXCEPT
                              !.TotEvRead_cnt = @ + cfg.NumEvents[bd],
                              !.EvRead_cnt = AddCnt(@, bd, Enabled(cfg, bd), cfg.NumEvents[bd]),
                              !.LatestReadTstamp[bd] = [ch \in Channels |->
                                  IF cfg.ChannelEnable[bd][ch]
                                  THEN input[bd][Len(input[bd])].TDC[ch \div 2] * 5
                                  ELSE @[ch]]],
                           cfg, input, bd + 1)

EventsDecoding(buff, stats, cfg, input) ==
    LET m == MakeSpaceBuffers(buff, stats, cfg) IN
    DecodeBoards(m.buff, m.stats, cfg, input, 0)

\* ReadData: the number of events each board delivered
ReadData(cfg, input) ==
    [cfg EXCEPT !.NumEvents = [bd \in Boards |-> Len(input[bd])]]

-----------------------------------------------------------------------------
(***************************************************************************)
(* WaveDemo.c: ProcessesSynchronizedEvents.                               *)
(***************************************************************************)
\* the least number of buffered events over the boards
RECURSIVE MinBuffLoop(_, _, _)
MinBuffLoop(buff, bd, m) ==
    IF bd >= NumBoards
    THEN m
    ELSE MinBuffLoop(buff, bd + 1,
                     IF WDBuff_used_space(buff, bd) < m THEN WDBuff_used_space(buff, bd) ELSE m)

MinBuffLen_board0(buff) == WDBuff_used_space(buff, 0)

\* min_buff_len taken from the buffer with the most events
MinBuffLen_longest(buff) ==
    CHOOSE m \in {WDBuff_used_space(buff, bd) : bd \in Boards} :
        \A bd \in Boards : WDBuff_used_space(buff, bd) <= m

MinBuffLen(buff) == MinBuffLoop(buff, 1, WDBuff_used_space(buff, 0))

\* events[bd]->Event->DataGroup[RefChannel / 2].TDC of the event peeked in slot
RefTDC(buff, cfg, bd, slot) ==
    SlotEvent(buff, bd, slot).TDC[cfg.RefChannel[bd] \div 2]

\* the minimum time stamp: starts from board 0 and takes any smaller one
RECURSIVE TDCMinLoop(_, _, _)
TDCMinLoop(tdc, bd, m) ==
    IF bd >= NumBoards
    THEN m
    ELSE TDCMinLoop(tdc, bd + 1, IF tdc[bd] < m THEN tdc[bd] ELSE m)

TDCMin_board0(tdc) == tdc[0]

TDCMin(tdc) == TDCMinLoop(tdc, 1, tdc[0])

\* event_good[bd]: the distance in ns from the minimum is within SYNC_WIN
EventGood_strict(tdc, tmin, bd) ==
    (tdc[bd] - tmin) * 5 < SYNC_WIN

\* event_good[bd] that leaves out a distance of 0
EventGood_late(tdc, tmin, bd) ==
    (tdc[bd] - tmin) * 5 <= SYNC_WIN /\ tdc[bd] # tmin

EventGood(tdc, tmin, bd) ==
    (tdc[bd] - tmin) * 5 <= SYNC_WIN

CountSync(good) == Cardinality({ bd \in Boards : good[bd] })

\* handles[bd].RefEvent after the matching loop: the peeked event of the TOF
\* start board, NULL for the others
SetRefEvent(cfg, slots) ==
    [cfg EXCEPT !.RefEvent =
        [bd \in Boards |-> IF bd = cfg.TOFstartBoard THEN <<slots[bd]>> ELSE NULL]]

\* the counters after one round: the unsynchronized count of a partial round,
\* then per good board the accepted or lost count and the processed count;
\* fts[bd][ch] says whether the waveform processing left a non-zero fine time
\* stamp for channel ch of the event of board bd
RoundStats_lostUnmatched(stats, cfg, good, fts) ==
    LET count == CountSync(good)
        full  == count = NumBoards IN
    [stats EXCEPT
       !.UnSyncEv_cnt = IF full THEN @ ELSE @ + (NumBoards - count),
       !.EvFilt_cnt = [bd \in Boards |-> [ch \in Channels |->
            IF good[bd] /\ full /\ cfg.ChannelEnable[bd][ch] /\ fts[bd][ch]
            THEN @[bd][ch] + 1 ELSE @[bd][ch]]],
       !.EvLost_cnt = [bd \in Boards |-> [ch \in Channels |->
            IF ~good[bd] /\ ~full /\ cfg.ChannelEnable[bd][ch]
            THEN @[bd][ch] + 1 ELSE @[bd][ch]]],
       !.EvProcessed_cnt = [bd \in Boards |-> [ch \in Channels |->
            IF good[bd] /\ cfg.ChannelEnable[bd][ch]
            THEN @[bd][ch] + 1 ELSE @[bd][ch]]]]

RoundStats_lostAlways(stats, cfg, good, fts) ==
    LET count == CountSync(good)
        full  == count = NumBoards IN
    [stats EXCEPT
       !.UnSyncEv_cnt = IF full THEN @ ELSE @ + (NumBoards - count),
       !.EvFilt_cnt = [bd \in Boards |-> [ch \in Channels |->
            IF good[bd] /\ full /\ cfg.ChannelEnable[bd][ch] /\ fts[bd][ch]
            THEN @[bd][ch] + 1 ELSE @[bd][ch]]],
       !.EvLost_cnt = [bd \in Boards |-> [ch \in Channels |->
            IF good[bd] /\ cfg.ChannelEnable[bd][ch]
            THEN @[bd][ch] + 1 ELSE @[bd][ch]]],
       !.EvProcessed_cnt = [bd \in Boards |-> [ch \in Channels |->
            IF good[bd] /\ cfg.ChannelEnable[bd][ch]
            THEN @[bd][ch] + 1 ELSE @[bd][ch]]]]

RoundStats(stats, cfg, good, fts) ==
    LET count == CountSync(good)
        full  == count = NumBoards IN
    [stats EXCEPT
       !.UnSyncEv_cnt = IF full THEN @ ELSE @ + (NumBoards - count),
       !.EvFilt_cnt = [bd \in Boards |-> [ch \in Channels |->
            IF good[bd] /\ full /\ cfg.ChannelEnable[bd][ch] /\ fts[bd][ch]
            THEN @[bd][ch] + 1 ELSE @[bd][ch]]],
       !.EvLost_cnt = [bd \in Boards |-> [ch \in Channels |->
            IF good[bd] /\ ~full /\ cfg.ChannelEnable[bd][ch]
            THEN @[bd][ch] + 1 ELSE @[bd][ch]]],
       !.EvProcessed_cnt = [bd \in Boards |-> [ch \in Channels |->
            IF good[bd] /\ cfg.ChannelEnable[bd][ch]
            THEN @[bd][ch] + 1 ELSE @[bd][ch]]]]

\* the matched events of a round eliminated because the waveform processing
\* left them no fine time stamp (toProcess = false), counted per channel
RoundNoFine(nofine, cfg, good, fts) ==
    [bd \in Boards |-> [ch \in Channels |->
        IF CountSync(good) = NumBoards /\ cfg.ChannelEnable[bd][ch] /\ ~fts[bd][ch]
        THEN nofine[bd][ch] + 1 ELSE nofine[bd][ch]]]

\* the warning of a partial round: written when the count is 0 after the
\* number of unmatched boards has been added to it
RoundWarns(stats, good) ==
    IF CountSync(good) # NumBoards /\ stats.UnSyncEv_cnt + (NumBoards - CountSync(good)) = 0
    THEN 1 ELSE 0

\* the buffers after one round: WDBuff_remove(1) on boards bd .. NumBoards-1
\* whose event is good
RECURSIVE RoundRemoveLoop(_, _, _)
RoundRemoveLoop(buff, good, bd) ==
    IF bd >= NumBoards
    THEN buff
    ELSE RoundRemoveLoop(IF good[bd] THEN WDBuff_remove(buff, bd, 1).buff ELSE buff,
                         good, bd + 1)

RoundRemove_everyBoard(buff, good) ==
    RoundRemoveLoop(buff, [bd \in Boards |-> TRUE], 0)

RoundRemove(buff, good) == RoundRemoveLoop(buff, good, 0)

-----------------------------------------------------------------------------
(***************************************************************************)
(* WDStats.c.  The float fields of WaveDemoStats_t are kept as exact      *)
(* fractions [n, d] in lowest terms with d > 0; the quotients by zero of  *)
(* float arithmetic are d = 0 with n = 1 (+inf), -1 (-inf) or 0 (NaN).    *)
(***************************************************************************)
\* 0xFFFFFFFFFFFFFFFF in a uint64_t counter, written as the integer it is
\* congruent to modulo 2^64
AllBitsSet == -1

\* 1e9f: nanoseconds in a second
NsPerSec == 1000000000

\* 1e6f: nanoseconds in a millisecond
NsPerMs == 1000000

\* the 5000 ms without ICR update after which the read rate stands for it
IcrTimeoutMs == 5000

REALTIME_FROM_BOARDS == 0

REALTIME_FROM_COMPUTER == 1

Abs(x) == IF x < 0 THEN 0 - x ELSE x

Sign(x) == IF x < 0 THEN -1 ELSE IF x > 0 THEN 1 ELSE 0

RECURSIVE GCD(_, _)
GCD(a, b) == IF b = 0 THEN a ELSE GCD(b, a % b)

Frac(n, d) ==
    IF d = 0
    THEN [n |-> Sign(n), d |-> 0]
    ELSE LET g == GCD(Abs(n), Abs(d)) IN
         [n |-> Sign(d) * (n \div g), d |-> Abs(d) \div g]

FracInt(k) == [n |-> k, d |-> 1]

FracZero == FracInt(0)

FracOne == FracInt(1)

\* the -1 a rate holds when the board does not provide the counter
NotAvailable == FracInt(-1)

IsFinite(a) == a.d # 0

\* a / b in float arithmetic
FracDiv(a, b) ==
    IF ~IsFinite(a) \/ ~IsFinite(b)
    THEN [n |-> 0, d |-> 0]
    ELSE IF b.n = 0
    THEN [n |-> Sign(a.n), d |-> 0]
    ELSE LET g1 == GCD(Abs(a.n), Abs(b.n))
             g2 == GCD(a.d, b.d)
             gn == IF g1 = 0 THEN 1 ELSE g1 IN
         Frac((a.n \div gn) * (b.d \div g2), (a.d \div g2) * (b.n \div gn))

\* a * b
FracMul(a, b) ==
    IF ~IsFinite(a) \/ ~IsFinite(b)
    THEN [n |-> 0, d |-> 0]
    ELSE LET g1 == GCD(Abs(a.n), b.d)
             g2 == GCD(Abs(b.n), a.d) IN
         Frac((a.n \div g1) * (b.n \div g2), (a.d \div g2) * (b.d \div g1))

\* a - b
FracSub(a, b) ==
    IF ~IsFinite(a) \/ ~IsFinite(b)
    THEN [n |-> 0, d |-> 0]
    ELSE LET g == GCD(a.d, b.d) IN
         Frac(a.n * (b.d \div g) - b.n * (a.d \div g), (a.d \div g) * b.d)

\* a < b, a > b and a == b of finite values
FracLess(a, b) ==
    LET g == GCD(a.d, b.d) IN
    a.n * (b.d \div g) < b.n * (a.d \div g)

FracGreater(a, b) == FracLess(b, a)

\* the per-channel fields of WaveDemoStats_t: counters and time stamps
\* (uint64_t) and rates (float)
ChannelCounters ==
    {"EvRead_cnt", "EvRead_pcnt", "EvRead_dcnt", "EvProcessed_cnt", "EvProcessed_pcnt",
     "EvInput_cnt", "EvInput_pcnt", "EvFilt_cnt", "EvFilt_pcnt", "EvLost_cnt", "EvLost_pcnt",
     "BusyTimeGap", "LatestReadTstamp", "PrevReadTstamp", "LatestProcTstamp",
     "PrevProcTstamp", "ICRUpdateTime", "PrevICRUpdateTime", "LostTrgUpdateTime",
     "PrevLostTrgUpdateTime"}

ChannelRates ==
    {"EvRead_rate", "EvInput_rate", "EvFilt_rate", "EvLost_rate", "DeadTime",
     "MatchingRatio", "EvOutput_rate", "BusyTime"}

\* the value v, evaluated once: TLC evaluates a function expression anew at
\* each application unless the function has been compared
Once(v) == CHOOSE x \in {v, v} : TRUE

\* one channel's fields gathered from the arrays of stats
ChannelOf(stats, b, ch) ==
    Once([f \in ChannelCounters \cup ChannelRates |-> stats[f][b][ch]])

\* The body of the channel loop of UpdateStatistics, block by block: each
\* operator takes the fields c of an enabled channel as the preceding block
\* left them and gives them as its block leaves them.

FracMin(a, b) == IF FracGreater(a, b) THEN b ELSE a

FracMax(a, b) == IF FracLess(a, b) THEN b ELSE a

\* a value kept within 0 .. 1 (lines 167-168, 178-179)
Clamp01(a) == FracMin(FracMax(a, FracZero), FracOne)

\* ReadRates without lines 88-90: rates that are not computed keep their value
ReadRates_kept(c, run) ==
    IF run.IntegratedRates # 0 /\ c.LatestReadTstamp > 0
    THEN [c EXCEPT
            !.EvRead_rate = FracDiv(FracInt(c.EvRead_cnt), Frac(c.LatestReadTstamp, NsPerSec)),
            !.EvFilt_rate = FracDiv(FracInt(c.EvFilt_cnt), Frac(c.LatestReadTstamp, NsPerSec))]
    ELSE IF c.LatestReadTstamp > c.PrevReadTstamp
    THEN [c EXCEPT
            !.EvRead_rate = FracDiv(FracInt(c.EvRead_cnt - c.EvRead_pcnt),
                                    Frac(c.LatestReadTstamp - c.PrevReadTstamp, NsPerSec)),
            !.EvFilt_rate = FracDiv(FracInt(c.EvFilt_cnt - c.EvFilt_pcnt),
                                    Frac(c.LatestReadTstamp - c.PrevReadTstamp, NsPerSec))]
    ELSE c

\* lines 88-100: the rates are cleared, then computed over the whole run or
\* over the time since the last update
ReadRates(c, run) ==
    IF run.IntegratedRates # 0 /\ c.LatestReadTstamp > 0
    THEN [c EXCEPT
            !.EvRead_rate = FracDiv(FracInt(c.EvRead_cnt), Frac(c.LatestReadTstamp, NsPerSec)),
            !.EvFilt_rate = FracDiv(FracInt(c.EvFilt_cnt), Frac(c.LatestReadTstamp, NsPerSec))]
    ELSE IF ~(run.IntegratedRates # 0 /\ c.LatestReadTstamp > 0)
            /\ c.LatestReadTstamp > c.PrevReadTstamp
    THEN [c EXCEPT
            !.EvRead_rate = FracDiv(FracInt(c.EvRead_cnt - c.EvRead_pcnt),
                                    Frac(c.LatestReadTstamp - c.PrevReadTstamp, NsPerSec)),
            !.EvFilt_rate = FracDiv(FracInt(c.EvFilt_cnt - c.EvFilt_pcnt),
                                    Frac(c.LatestReadTstamp - c.PrevReadTstamp, NsPerSec))]
    ELSE [c EXCEPT !.EvRead_rate = FracZero, !.EvFilt_rate = FracZero]

\* lines 102-106 without the two corrections of lines 105-106
OutputRate_unclamped(c) ==
    [c EXCEPT !.EvOutput_rate = c.EvFilt_rate]

\* lines 102-106
OutputRate(c) ==
    [c EXCEPT !.EvOutput_rate = FracMax(c.EvFilt_rate, FracZero),
              !.EvFilt_rate = FracMin(c.EvFilt_rate, c.EvRead_rate)]

\* lines 108-132
InputRate(c, run, AcqRealTime) ==
    IF run.AcqRun = 0
    THEN [c EXCEPT !.EvInput_rate = FracZero]
    ELSE IF c.EvInput_cnt = AllBitsSet
    THEN [c EXCEPT !.EvInput_rate = NotAvailable]
    ELSE IF c.EvRead_rate = FracZero \/ c.ICRUpdateTime = 0
    THEN [c EXCEPT !.EvInput_rate = FracZero]
    ELSE IF run.IntegratedRates # 0
    THEN [c EXCEPT !.EvInput_rate = FracDiv(FracInt(c.EvInput_cnt),
                                            Frac(c.ICRUpdateTime, NsPerSec)),
                   !.EvInput_pcnt = c.EvInput_cnt,
                   !.PrevICRUpdateTime = c.ICRUpdateTime]
    ELSE IF c.ICRUpdateTime > c.PrevICRUpdateTime
    THEN [c EXCEPT !.EvInput_rate = FracDiv(FracInt(c.EvInput_cnt - c.EvInput_pcnt),
                                            Frac(c.ICRUpdateTime - c.PrevICRUpdateTime, NsPerSec)),
                   !.EvInput_pcnt = c.EvInput_cnt,
                   !.PrevICRUpdateTime = c.ICRUpdateTime]
    ELSE IF FracLess(Frac(c.PrevICRUpdateTime, NsPerMs),
                     FracSub(AcqRealTime, FracInt(IcrTimeoutMs)))
    THEN [c EXCEPT !.EvInput_rate = c.EvRead_rate]
    ELSE c

\* UpdateStatistics without lines 135-136
RaiseInputRate_never(c) == c

\* lines 135-136 without the test for -1
RaiseInputRate_always(c) ==
    IF FracLess(c.EvInput_rate, c.EvRead_rate)
    THEN [c EXCEPT !.EvInput_rate = c.EvRead_rate]
    ELSE c

\* lines 135-136: the -1 of a missing counter is kept
RaiseInputRate(c) ==
    IF c.EvInput_rate # NotAvailable /\ FracLess(c.EvInput_rate, c.EvRead_rate)
    THEN [c EXCEPT !.EvInput_rate = c.EvRead_rate]
    ELSE c

\* the lost rate computed from the lost trigger counter (lines 138-156), before
\* it is compared with the input rate; EvLost_cnt is unsigned and never < 0
LostRate(c, run) ==
    IF run.IntegratedRates # 0 /\ c.LostTrgUpdateTime > 0
    THEN FracDiv(FracInt(c.EvLost_cnt), Frac(c.LostTrgUpdateTime, NsPerSec))
    ELSE IF c.LostTrgUpdateTime > c.PrevLostTrgUpdateTime
    THEN FracDiv(FracInt(c.EvLost_cnt - c.EvLost_pcnt),
                 Frac(c.LostTrgUpdateTime - c.PrevLostTrgUpdateTime, NsPerSec))
    ELSE FracZero

\* the lost rate without lines 157-158
LostRateLimit_none(lost, in) == lost

\* the lost rate kept no larger than the input rate (lines 157-158)
LostRateLimit(lost, in) == FracMin(lost, in)

\* lines 138-158
LostRates(c, run) ==
    IF (run.IntegratedRates # 0 /\ c.LostTrgUpdateTime > 0)
       \/ c.LostTrgUpdateTime > c.PrevLostTrgUpdateTime
    THEN [c EXCEPT !.EvLost_rate = LostRateLimit(LostRate(c, run), c.EvInput_rate),
                   !.EvLost_pcnt = c.EvLost_cnt,
                   !.PrevLostTrgUpdateTime = c.LostTrgUpdateTime]
    ELSE [c EXCEPT !.EvLost_rate = LostRateLimit(FracZero, c.EvInput_rate)]

\* lines 160-168 with the live fraction in place of the dead one
DeadTimeOf_live(c) ==
    [c EXCEPT !.DeadTime =
        IF FracGreater(c.EvInput_rate, FracZero) /\ ~FracLess(c.EvLost_rate, FracZero)
        THEN Clamp01(FracDiv(FracSub(c.EvInput_rate, c.EvLost_rate), c.EvInput_rate))
        ELSE FracZero]

\* lines 160-168
DeadTimeOf(c) ==
    [c EXCEPT !.DeadTime =
        IF FracGreater(c.EvInput_rate, FracZero) /\ ~FracLess(c.EvLost_rate, FracZero)
        THEN Clamp01(FracSub(FracOne, FracDiv(FracSub(c.EvInput_rate, c.EvLost_rate),
                                              c.EvInput_rate)))
        ELSE FracZero]

\* 1e9 / EvInput_rate when the rate is positive (line 172)
TriggerPeriod(c) ==
    IF FracGreater(c.EvInput_rate, FracZero)
    THEN FracDiv(FracInt(NsPerSec), c.EvInput_rate)
    ELSE FracZero

\* lines 170-179
BusyTimeOf(c) ==
    [c EXCEPT !.BusyTime =
        IF c.LatestReadTstamp > c.PrevReadTstamp
        THEN Clamp01(FracDiv(FracSub(FracInt(c.BusyTimeGap), TriggerPeriod(c)),
                             FracInt(c.LatestReadTstamp - c.PrevReadTstamp)))
        ELSE FracZero]

\* the ratio of the counts since the reset instead of lines 182-186
MatchingRatioOf_total(c) ==
    [c EXCEPT !.MatchingRatio =
        IF c.EvProcessed_cnt > 0
        THEN Frac(c.EvFilt_cnt, c.EvProcessed_cnt)
        ELSE FracZero]

\* lines 182-186
MatchingRatioOf(c) ==
    [c EXCEPT !.MatchingRatio =
        IF c.EvProcessed_cnt > c.EvProcessed_pcnt
        THEN Frac(c.EvFilt_cnt - c.EvFilt_pcnt, c.EvProcessed_cnt - c.EvProcessed_pcnt)
        ELSE FracZero]

\* lines 189-196 without the time stamps of line 193 and 194
SaveCounters_notimes(c) ==
    [c EXCEPT !.EvRead_dcnt = c.EvRead_cnt - c.EvRead_pcnt,
              !.EvRead_pcnt = c.EvRead_cnt,
              !.EvFilt_pcnt = c.EvFilt_cnt,
              !.EvProcessed_pcnt = c.EvProcessed_cnt,
              !.BusyTimeGap = 0]

\* lines 189-196
SaveCounters(c) ==
    [c EXCEPT !.EvRead_dcnt = c.EvRead_cnt - c.EvRead_pcnt,
              !.EvRead_pcnt = c.EvRead_cnt,
              !.EvFilt_pcnt = c.EvFilt_cnt,
              !.EvProcessed_pcnt = c.EvProcessed_cnt,
              !.PrevReadTstamp = c.LatestReadTstamp,
              !.PrevProcTstamp = c.LatestProcTstamp,
              !.BusyTimeGap = 0]

UpdateChannel(c, run, AcqRealTime) ==
    SaveCounters(MatchingRatioOf(BusyTimeOf(DeadTimeOf(LostRates(
        RaiseInputRate(InputRate(OutputRate(ReadRates(c, run)), run, AcqRealTime)), run)))))

\* 1048.576f
KBytePerMs == Frac(131072, 125)

UpdateStatistics(stats, cfg, run, CurrentTime) ==
    LET fromBoards == stats.LatestProcTstampAll > stats.PrevProcTstampAll
        AcqRealTime == IF fromBoards
                       THEN Frac(stats.LatestProcTstampAll, NsPerMs)
                       ELSE FracInt(CurrentTime - stats.StartTime)
        RxByte_rate == IF run.IntegratedRates # 0
                       THEN FracDiv(FracInt(stats.RxByte_cnt), FracMul(AcqRealTime, KBytePerMs))
                       ELSE FracDiv(FracInt(stats.RxByte_cnt - stats.RxByte_pcnt),
                                    FracMul(FracInt(CurrentTime - stats.LastUpdateTime), KBytePerMs))
        new == Once([b \in Boards |-> [ch \in Channels |->
                  IF cfg.ChannelEnable[b][ch]
                  THEN UpdateChannel(ChannelOf(stats, b, ch), run, AcqRealTime)
                  ELSE ChannelOf(stats, b, ch)]])
    IN  [f \in DOMAIN stats |->
            IF f \in ChannelCounters \cup ChannelRates
            THEN [b \in Boards |-> [ch \in Channels |-> new[b][ch][f]]]
            ELSE IF f = "AcqRealTime" THEN AcqRealTime
            ELSE IF f = "RealTimeSource"
                 THEN (IF fromBoards THEN REALTIME_FROM_BOARDS ELSE REALTIME_FROM_COMPUTER)
            ELSE IF f = "RxByte_rate" THEN RxByte_rate
            ELSE IF f = "RxByte_pcnt" THEN stats.RxByte_cnt
            ELSE IF f = "BlockRead_cnt" THEN 0
            ELSE IF f = "LastUpdateTime" THEN CurrentTime
            ELSE IF f = "PrevProcTstampAll" THEN stats.LatestProcTstampAll
            ELSE stats[f]]

\* a reset that leaves a count of read events saved as the previous one
ResetStatistics_stale(run, now) ==
    [InitStats EXCEPT !.StartTime = IF run.AcqRun # 0 THEN now ELSE 0,
                      !.EvRead_pcnt = [b \in Boards |-> [ch \in Channels |-> 500]]]

\* ResetStatistics called at computer time now
ResetStatistics(run, now) ==
    [InitStats EXCEPT !.StartTime = IF run.AcqRun # 0 THEN now ELSE 0]

-----------------------------------------------------------------------------
(***************************************************************************)
(* Spec: the buffer interface of WDBuffers.h driven by arbitrary calls on  *)
(* one board, loc.bd, which Init picks among the boards (the functions of *)
(* WDBuffers.c read and write nothing but the entries of index bd).       *)
(***************************************************************************)
Unallocated == \A bd \in Boards : WDbuff.buffer[bd] = NULL

ApiAllocate ==
    /\ pc = "api" /\ Unallocated
    /\ \E k \in 0 .. NumBoards :
         /\ WDbuff' = AllocateEventBuffer(k)
         /\ op' = Call("allocate", 0, k, IF k = NumBoards THEN 0 ELSE -1, -1)
    /\ UNCHANGED <<WDstats, WDcfg, pc, loc, MsgLog, hw, NoFine, WDrun>>

ApiReset ==
    /\ pc = "api"
    /\ \E bd \in {loc.bd} :
         LET r == WDBuff_reset(WDbuff, bd) IN
         /\ WDbuff' = r.buff
         /\ op' = Call("reset", bd, 0, r.ret, -1)
    /\ UNCHANGED <<WDstats, WDcfg, pc, loc, MsgLog, hw, NoFine, WDrun>>

ApiAdded ==
    /\ pc = "api"
    /\ \E bd \in {loc.bd}, num \in -1 .. MaxNum :
         LET r == WDBuff_added(WDbuff, bd, num) IN
         /\ WDbuff' = r.buff
         /\ op' = Call("added", bd, num, r.ret, -1)
    /\ UNCHANGED <<WDstats, WDcfg, pc, loc, MsgLog, hw, NoFine, WDrun>>

ApiRemove ==
    /\ pc = "api"
    /\ \E bd \in {loc.bd}, num \in -1 .. MaxNum :
         LET r == WDBuff_remove(WDbuff, bd, num) IN
         /\ WDbuff' = r.buff
         /\ op' = Call("remove", bd, num, r.ret, -1)
    /\ UNCHANGED <<WDstats, WDcfg, pc, loc, MsgLog, hw, NoFine, WDrun>>

ApiGetWritePointer ==
    /\ pc = "api"
    /\ \E bd \in {loc.bd} :
         LET r == WDBuff_get_write_pointer(WDbuff, bd) IN
         /\ op' = Call("get_write_pointer", bd, 0, r.ret, r.slot)
    /\ UNCHANGED <<WDbuff, WDstats, WDcfg, pc, loc, MsgLog, hw, NoFine, WDrun>>

ApiPeak ==
    /\ pc = "api"
    /\ \E bd \in {loc.bd} :
         LET r == WDBuff_peak(WDbuff, bd) IN
         /\ op' = Call("peak", bd, 0, r.ret, r.slot)
    /\ UNCHANGED <<WDbuff, WDstats, WDcfg, pc, loc, MsgLog, hw, NoFine, WDrun>>

ApiSetPosition ==
    /\ pc = "api"
    /\ \E bd \in {loc.bd}, pos \in -1 .. EVT_BUF_SIZE :
         LET r == WDBuff_set_position(WDbuff, bd, pos) IN
         /\ WDbuff' = r.buff
         /\ op' = Call("set_position", bd, pos, r.ret, -1)
    /\ UNCHANGED <<WDstats, WDcfg, pc, loc, MsgLog, hw, NoFine, WDrun>>

ApiGetNext ==
    /\ pc = "api"
    /\ \E bd \in {loc.bd} :
         LET r == WDBuff_get_next(WDbuff, bd) IN
         /\ WDbuff' = r.buff
         /\ op' = Call("get_next", bd, 0, r.ret, r.slot)
    /\ UNCHANGED <<WDstats, WDcfg, pc, loc, MsgLog, hw, NoFine, WDrun>>

Next ==
    \/ ApiAllocate
    \/ ApiReset
    \/ ApiAdded
    \/ ApiRemove
    \/ ApiGetWritePointer
    \/ ApiPeak
    \/ ApiSetPosition
    \/ ApiGetNext

Spec == Init /\ [][Next]_vars

-----------------------------------------------------------------------------
(***************************************************************************)
(* SpecFifo: a producer and a consumer on every board.  The producer does *)
(* what EventsDecoding does for one event (WDBuff_get_write_pointer,      *)
(* store the event, WDBuff_added(1)), the consumer what the processing    *)
(* functions do for one event (WDBuff_peak, read it, WDBuff_remove(1)).   *)
(* The n-th event committed to a board carries time stamp n; loc counts   *)
(* the successful commits and removals and keeps the last event read.     *)
(***************************************************************************)
InitFifo ==
    /\ WDbuff = AllocateEventBuffer(NumBoards)
    /\ WDstats = InitStats
    /\ WDcfg \in { c \in Configs : \A bd \in Boards : \A ch \in Channels : c.ChannelEnable[bd][ch] }
    /\ pc = "fifo"
    /\ loc = [ncommit |-> [bd \in Boards |-> 0],
              npop    |-> [bd \in Boards |-> 0],
              last    |-> [bd \in Boards |-> ZeroEvent]]
    /\ op = NoOp
    /\ MsgLog = 0
    /\ hw = InitBoards
    /\ NoFine = ZeroCnt
    /\ WDrun = Running

FifoCommit ==
    /\ pc = "fifo"
    /\ \E bd \in Boards :
         /\ loc.ncommit[bd] < MaxCommits
         /\ LET w  == WDBuff_get_write_pointer(WDbuff, bd)
                ev == [TDC |-> [g \in Groups |-> loc.ncommit[bd] + 1]] IN
            IF w.ret < 0
            THEN /\ op' = Call("commit", bd, 1, -1, -1)
                 /\ UNCHANGED <<WDbuff, loc>>
            ELSE LET a == WDBuff_added(StoreEvent(WDbuff, bd, w.slot, ev), bd, 1) IN
                 /\ WDbuff' = a.buff
                 /\ op' = Call("commit", bd, 1, a.ret, w.slot)
                 /\ loc' = IF a.ret = 1
                           THEN [loc EXCEPT !.ncommit[bd] = @ + 1]
                           ELSE loc
    /\ UNCHANGED <<WDstats, WDcfg, pc, MsgLog, hw, NoFine, WDrun>>

FifoPop ==
    /\ pc = "fifo"
    /\ \E bd \in Boards :
         LET p == WDBuff_peak(WDbuff, bd) IN
         IF p.ret < 0
         THEN /\ op' = Call("pop", bd, 1, -1, -1)
              /\ UNCHANGED <<WDbuff, loc>>
         ELSE LET r == WDBuff_remove(WDbuff, bd, 1) IN
              /\ WDbuff' = r.buff
              /\ op' = Call("pop", bd, 1, r.ret, p.slot)
              /\ loc' = IF r.ret = 1
                        THEN [loc EXCEPT !.npop[bd] = @ + 1,
                                         !.last[bd] = SlotEvent(WDbuff, bd, p.slot)]
                        ELSE loc
    /\ UNCHANGED <<WDstats, WDcfg, pc, MsgLog, hw, NoFine, WDrun>>

NextFifo ==
    \/ FifoCommit
    \/ FifoPop

SpecFifo == InitFifo /\ [][NextFifo]_vars

-----------------------------------------------------------------------------
(***************************************************************************)
(* SpecSync: the acquisition loop of main() while a run with              *)
(* synchronization enabled is going on: ReadData and EventsDecoding, then *)
(* ProcessesSynchronizedEvents, one step per round of its loop.  loc      *)
(* holds the locals of ProcessesSynchronizedEvents.                       *)
(***************************************************************************)
NoRound ==
    [i            |-> 0,
     min_buff_len |-> 0,
     events       |-> [bd \in Boards |-> -1],
     tdc          |-> [bd \in Boards |-> 0],
     event_good   |-> [bd \in Boards |-> FALSE]]

InitSync ==
    /\ WDbuff = AllocateEventBuffer(NumBoards)
    /\ WDstats = InitStats
    /\ WDcfg \in Configs
    /\ pc = "read"
    /\ loc = NoRound
    /\ op = NoOp
    /\ MsgLog = 0
    /\ hw = InitBoards
    /\ NoFine = ZeroCnt
    /\ WDrun = Running

\* what the waveform processing can leave in the events of one round: a
\* non-zero fine time stamp in every channel, or a zero one in every channel
FineTimeStamps ==
    { [bd \in Boards |-> [ch \in Channels |-> b]] : b \in BOOLEAN }

RECURSIVE TotalLen(_, _)
TotalLen(input, bd) ==
    IF bd >= NumBoards THEN 0 ELSE Len(input[bd]) + TotalLen(input, bd + 1)

\* one pass of the loop up to the processing: ReadData, then EventsDecoding;
\* an error code makes main() leave the loop
ReadAndDecode ==
    /\ pc = "read"
    /\ \E input \in { f \in [Boards -> InputBlocks(0)] :
                          \A bd \in Boards : f[bd] \in InputBlocks(hw.clock[bd]) } :
         /\ WDstats.TotEvRead_cnt + TotalLen(input, 0) <= MaxEvents
         /\ hw' = [hw EXCEPT !.clock = ClockAfter(hw.clock, input)]
         /\ LET cfg == ReadData(WDcfg, input)
                d   == EventsDecoding(WDbuff, WDstats, cfg, input) IN
            /\ WDcfg' = cfg
            /\ WDbuff' = d.buff
            /\ WDstats' = d.stats
            /\ pc' = IF d.err = "ERR_NONE" THEN "process" ELSE "quit"
            /\ op' = Call("decode", 0, TotalLen(input, 0), IF d.err = "ERR_NONE" THEN 0 ELSE -1, -1)
    /\ loc' = NoRound
    /\ UNCHANGED <<MsgLog, NoFine, WDrun>>

\* ProcessesSynchronizedEvents up to its loop: returns 0 when a buffer is empty
SyncEnter ==
    /\ pc = "process"
    /\ LET m == MinBuffLen(WDbuff) IN
       IF m = 0
       THEN /\ pc' = "read"
            /\ op' = Call("sync", 0, m, 0, -1)
            /\ UNCHANGED loc
       ELSE /\ pc' = "round"
            /\ op' = Call("sync", 0, m, -1, -1)
            /\ loc' = [NoRound EXCEPT !.min_buff_len = m]
    /\ UNCHANGED <<WDbuff, WDstats, WDcfg, MsgLog, hw, NoFine, WDrun>>

\* one iteration of the loop of ProcessesSynchronizedEvents; after the last
\* one the function returns 1
SyncRound ==
    /\ pc = "round"
    /\ IF \E bd \in Boards : WDBuff_empty(WDbuff, bd) = 1
       THEN /\ pc' = "read"
            /\ op' = Call("round", 0, loc.i, 0, -1)
            /\ UNCHANGED <<WDbuff, WDstats, WDcfg, loc, MsgLog, NoFine, WDrun>>
       ELSE LET events == [bd \in Boards |-> WDBuff_peak(WDbuff, bd).slot]
                tdc    == [bd \in Boards |-> RefTDC(WDbuff, WDcfg, bd, events[bd])]
                tmin   == TDCMin(tdc)
                good   == [bd \in Boards |-> EventGood(tdc, tmin, bd)]
                last   == loc.i + 1 >= loc.min_buff_len IN
            /\ \E fts \in FineTimeStamps :
                 /\ WDstats' = RoundStats(WDstats, WDcfg, good, fts)
                 /\ NoFine' = RoundNoFine(NoFine, WDcfg, good, fts)
            /\ MsgLog' = MsgLog + RoundWarns(WDstats, good)
            /\ WDbuff' = RoundRemove(WDbuff, good)
            /\ WDcfg' = SetRefEvent(WDcfg, events)
            /\ loc' = [loc EXCEPT !.i = @ + 1, !.events = events, !.tdc = tdc,
                                  !.event_good = good]
            /\ pc' = IF last THEN "read" ELSE "round"
            /\ op' = Call("round", 0, loc.i, IF last THEN 1 ELSE -1, -1)
    /\ UNCHANGED <<hw, WDrun>>

NextSync ==
    \/ ReadAndDecode
    \/ SyncEnter
    \/ SyncRound

SpecSync == InitSync /\ [][NextSync]_vars

-----------------------------------------------------------------------------
(***************************************************************************)
(* SpecScript: the same loop fed by two boards that have acquired a fixed *)
(* sequence of events before the first poll.  Board 0 holds three events, *)
(* board 1 four: the first, second and last of board 1 are coincident     *)
(* with those of board 0, the third of board 1 is a stray one, earlier    *)
(* than the last of board 0 by more than the window.  A poll hands over   *)
(* any number of each board's next events that fits the block transfer    *)
(* and the free space of its buffer: the buffers of the program hold 1999 *)
(* events and never overflow on seven.                                    *)
(***************************************************************************)
EventAt(t) == [TDC |-> [g \in Groups |-> t]]

Coincident(t, u) == (t - u) * 5 <= SYNC_WIN /\ (u - t) * 5 <= SYNC_WIN

Scripts ==
    { [bd \in Boards |-> IF bd = 0
                         THEN <<EventAt(a[1]), EventAt(a[2]), EventAt(a[3])>>
                         ELSE <<EventAt(b[1]), EventAt(b[2]), EventAt(b[3]), EventAt(b[4])>>] :
        a \in { x \in [1 .. 3 -> Ticks] : x[1] <= x[2] /\ x[2] <= x[3] },
        b \in { y \in [1 .. 4 -> Ticks] : y[1] <= y[2] /\ y[2] <= y[3] /\ y[3] <= y[4] } }

StrayInRound3(script) ==
    /\ Coincident(script[0][1].TDC[0], script[1][1].TDC[0])
    /\ Coincident(script[0][2].TDC[0], script[1][2].TDC[0])
    /\ Coincident(script[0][3].TDC[0], script[1][4].TDC[0])
    /\ (script[0][3].TDC[0] - script[1][3].TDC[0]) * 5 > SYNC_WIN

InitScript ==
    /\ WDbuff = AllocateEventBuffer(NumBoards)
    /\ WDstats = InitStats
    /\ WDcfg \in Configs
    /\ pc = "read"
    /\ loc = NoRound
    /\ op = NoOp
    /\ MsgLog = 0
    /\ hw \in { [InitBoards EXCEPT !.pending = s] : s \in { x \in Scripts : StrayInRound3(x) } }
    /\ NoFine = ZeroCnt
    /\ WDrun = Running

\* one pass of the loop up to the processing, the boards handing over the
\* next events they hold
ScriptRead ==
    /\ pc = "read"
    /\ \E k \in [Boards -> 0 .. MAX_NUM_EVENTS_BLT] :
         /\ \A bd \in Boards : /\ k[bd] <= Len(hw.pending[bd])
                                /\ k[bd] <= WDBuff_free_space(WDbuff, bd)
         /\ LET input == [bd \in Boards |-> SubSeq(hw.pending[bd], 1, k[bd])]
                cfg   == ReadData(WDcfg, input)
                d     == EventsDecoding(WDbuff, WDstats, cfg, input) IN
            /\ hw' = [clock   |-> ClockAfter(hw.clock, input),
                      pending |-> [bd \in Boards |->
                                     SubSeq(hw.pending[bd], k[bd] + 1, Len(hw.pending[bd]))]]
            /\ WDcfg' = cfg
            /\ WDbuff' = d.buff
            /\ WDstats' = d.stats
            /\ pc' = IF d.err = "ERR_NONE" THEN "process" ELSE "quit"
            /\ op' = Call("decode", 0, TotalLen(input, 0), IF d.err = "ERR_NONE" THEN 0 ELSE -1, -1)
    /\ loc' = NoRound
    /\ UNCHANGED <<MsgLog, NoFine, WDrun>>

NextScript ==
    \/ ScriptRead
    \/ SyncEnter
    \/ SyncRound

SpecScript == InitScript /\ [][NextScript]_vars

-----------------------------------------------------------------------------
(***************************************************************************)
(* SpecStats: UpdateStatistics applied to the statistics of a run.  After  *)
(* ResetStatistics the counters and time stamps of one channel take       *)
(* values drawn from small sets, as the readout and the boards' trigger   *)
(* information would have left them; then UpdateStatistics is called, up   *)
(* to MaxUpdates times, the computer time growing between the calls.      *)
(* loc holds the computer time (ms) and the number of calls made.         *)
(***************************************************************************)
\* calls of UpdateStatistics in one run of the model
MaxUpdates == 2

\* computer time between two calls: the program updates once a second
StatPeriods == {1000, 6000}

\* the values the counters of a channel can have
StatCounts == {0, 1000}

\* the values the time stamps (ns) of a channel can have
StatTimes == {0, NsPerSec}

StatsInputs ==
    { [EvRead_cnt |-> r, EvFilt_cnt |-> 2 * f, EvProcessed_cnt |-> p,
       EvInput_cnt |-> i, EvLost_cnt |-> (l \div 5) * 6,
       LatestReadTstamp |-> t, ICRUpdateTime |-> ti, LostTrgUpdateTime |-> tl] :
        r \in StatCounts, f \in StatCounts, p \in StatCounts,
        i \in StatCounts \cup {AllBitsSet}, l \in StatCounts,
        t \in StatTimes, ti \in StatTimes, tl \in StatTimes }

\* the statistics with the fields of channel ch of board b written
WithInputs(stats, b, ch, in) ==
    [f \in DOMAIN stats |->
        IF f \in DOMAIN in THEN [stats[f] EXCEPT ![b][ch] = in[f]]
        ELSE IF f = "LatestProcTstamp" THEN [stats[f] EXCEPT ![b][ch] = in.LatestReadTstamp]
        ELSE IF f = "LatestProcTstampAll" THEN in.LatestReadTstamp
        ELSE stats[f]]

InitStatsRun ==
    /\ WDbuff = AllocateEventBuffer(NumBoards)
    /\ WDrun \in [AcqRun : {0, 1}, IntegratedRates : {0, 1}]
    /\ WDstats = ResetStatistics(WDrun, 0)
    /\ WDcfg \in Configs
    /\ pc = "stats_reset"
    /\ loc = [now |-> 0, updates |-> 0]
    /\ op = NoOp
    /\ MsgLog = 0
    /\ hw = InitBoards
    /\ NoFine = ZeroCnt

\* the readout leaves counters and time stamps in one channel
StatsInput ==
    /\ pc = "stats_reset"
    /\ \E b \in Boards, in \in StatsInputs :
         /\ WDstats' = WithInputs(WDstats, b, 0, in)
         /\ op' = Call("input", b, 0, 0, -1)
    /\ pc' = "stats_input"
    /\ UNCHANGED <<WDbuff, WDcfg, loc, MsgLog, hw, NoFine, WDrun>>

\* UpdateStatistics(CurrentTime)
StatsUpdate ==
    /\ pc \in {"stats_input", "stats_updated"}
    /\ loc.updates < MaxUpdates
    /\ \E dt \in StatPeriods :
         /\ loc' = [now |-> loc.now + dt, updates |-> loc.updates + 1]
         /\ WDstats' = UpdateStatistics(WDstats, WDcfg, WDrun, loc.now + dt)
         /\ op' = Call("update", 0, loc.now + dt, 0, -1)
    /\ pc' = "stats_updated"
    /\ UNCHANGED <<WDbuff, WDcfg, MsgLog, hw, NoFine, WDrun>>

\* ResetStatistics (key 'e')
StatsReset ==
    /\ pc = "stats_updated"
    /\ loc.updates < MaxUpdates
    /\ WDstats' = ResetStatistics(WDrun, loc.now)
    /\ op' = Call("reset_stats", 0, loc.now, 0, -1)
    /\ pc' = "stats_reset"
    /\ UNCHANGED <<WDbuff, WDcfg, loc, MsgLog, hw, NoFine, WDrun>>

NextStats ==
    \/ StatsInput
    \/ StatsUpdate
    \/ StatsReset

SpecStats == InitStatsRun /\ [][NextStats]_vars

-----------------------------------------------------------------------------
(***************************************************************************)
(* WaveDemo.c: ProcessesUnsynchronizedEvents and the start of a run.      *)
(***************************************************************************)
\* max_num_events: the largest NumEvents over the boards
RECURSIVE MaxNumLoop(_, _, _)
MaxNumLoop(cfg, bd, m) ==
    IF bd >= NumBoards
    THEN m
    ELSE MaxNumLoop(cfg, bd + 1, IF cfg.NumEvents[bd] > m THEN cfg.NumEvents[bd] ELSE m)

\* max_num_events taken from board 0 alone
MaxNumEvents_board0(cfg) == cfg.NumEvents[0]

MaxNumEvents(cfg) == MaxNumLoop(cfg, 0, 0)

\* the body of the board loop of ProcessesUnsynchronizedEvents for board bd:
\* nothing when its buffer is empty; otherwise the oldest event is peeked,
\* RefEvent is set, the enabled channels whose fine time stamp is not 0
\* (fts[ch]) are processed and counted, and the event is removed.  event is
\* the slot of the peeked event, -1 for none; deref says that EventProcessing
\* was called, which reads the RefEvent of the TOF start board
UnsyncBoard_unprocessed(buff, stats, cfg, bd, fts) ==
    IF WDBuff_empty(buff, bd) = 1
    THEN [buff |-> buff, stats |-> stats, cfg |-> cfg, event |-> -1, deref |-> FALSE]
    ELSE LET slot == WDBuff_peak(buff, bd).slot
             chs  == { ch \in Enabled(cfg, bd) : fts[ch] } IN
         [buff  |-> WDBuff_remove(buff, bd, 1).buff,
          stats |-> [stats EXCEPT !.EvFilt_cnt = AddCnt(@, bd, chs, 1)],
          cfg   |-> [cfg EXCEPT !.RefEvent[bd] =
                                   IF bd = cfg.TOFstartBoard THEN <<slot>> ELSE NULL],
          event |-> slot,
          deref |-> chs # {}]

UnsyncBoard(buff, stats, cfg, bd, fts) ==
    IF WDBuff_empty(buff, bd) = 1
    THEN [buff |-> buff, stats |-> stats, cfg |-> cfg, event |-> -1, deref |-> FALSE]
    ELSE LET slot == WDBuff_peak(buff, bd).slot
             chs  == { ch \in Enabled(cfg, bd) : fts[ch] } IN
         [buff  |-> WDBuff_remove(buff, bd, 1).buff,
          stats |-> [stats EXCEPT
                       !.EvFilt_cnt = AddCnt(@, bd, chs, 1),
                       !.EvProcessed_cnt = AddCnt(@, bd, Enabled(cfg, bd), 1)],
          cfg   |-> [cfg EXCEPT !.RefEvent[bd] =
                                   IF bd = cfg.TOFstartBoard THEN <<slot>> ELSE NULL],
          event |-> slot,
          deref |-> chs # {}]

\* ResetEventBuffer
RECURSIVE ResetLoop(_, _)
ResetLoop(buff, bd) ==
    IF bd >= NumBoards THEN buff ELSE ResetLoop(WDBuff_reset(buff, bd).buff, bd + 1)

\* a run start that leaves the buffers as they are
ResetEventBuffer_none(buff) == buff

ResetEventBuffer(buff) == ResetLoop(buff, 0)

-----------------------------------------------------------------------------
(***************************************************************************)
(* SpecRun: the readout loop of main() with synchronization disabled, one *)
(* step per stage of a pass: the keyboard commands ('s' starts or stops   *)
(* the acquisition, 'e' resets the statistics), then either the pass of a *)
(* stopped acquisition or the start of the run, ReadData and              *)
(* EventsDecoding, ProcessesUnsynchronizedEvents one board at a time, and *)
(* the update of the statistics.  loc holds the locals of main()          *)
(* (AcqRunGoFlag, AcqRunStopFlag, CurrentTime in ms) and of               *)
(* ProcessesUnsynchronizedEvents (i, bd, max_num_events, events), the     *)
(* number of passes made and of events read so far, and taken[bd], the    *)
(* number of events the current call of ProcessesUnsynchronizedEvents has *)
(* removed from board bd.                                                 *)
(***************************************************************************)
\* passes of the loop in one run of the model
MaxPasses == 3

\* ms between two passes
PassTime == 1000

\* events the boards deliver in one run of the model
MaxPolled == 3

\* what one ReadData brings from a board in these runs: up to
\* MAX_NUM_EVENTS_BLT events of one trigger time
RunBlocks ==
    { b \in InputBlocks(20) : \A k \in 1 .. Len(b) : b[k].TDC[0] = 20 }

NoDrain ==
    [AcqRunGoFlag   |-> 0,
     AcqRunStopFlag |-> 0,
     CurrentTime    |-> 0,
     passes         |-> 0,
     polled         |-> 0,
     i              |-> 0,
     bd             |-> 0,
     max_num_events |-> 0,
     events         |-> [bd \in Boards |-> -1],
     taken          |-> [bd \in Boards |-> 0]]

InitRun ==
    /\ WDbuff = AllocateEventBuffer(NumBoards)
    /\ WDstats = InitStats
    /\ WDcfg \in Configs
    /\ WDrun \in { [Running EXCEPT !.AcqRun = a] : a \in {0, 1} }
    /\ pc = "keys"
    /\ loc = NoDrain
    /\ op = NoOp
    /\ MsgLog = 0
    /\ hw = InitBoards
    /\ NoFine = ZeroCnt

\* CheckKeyboardCommands, then CurrentTime = get_time()
RunKeys ==
    /\ pc = "keys"
    /\ loc.passes < MaxPasses
    /\ LET now == loc.CurrentTime + PassTime IN
       /\ loc' = [loc EXCEPT !.CurrentTime = now, !.passes = @ + 1]
       /\ \/ /\ op' = Call("key_none", 0, 0, 0, -1)
             /\ UNCHANGED <<WDrun, WDstats, hw>>
          \/ /\ WDrun.AcqRun = 0
             /\ WDrun' = [WDrun EXCEPT !.AcqRun = 1]
             /\ hw' = InitBoards
             /\ op' = Call("key_start", 0, 0, 0, -1)
             /\ UNCHANGED WDstats
          \/ /\ WDrun.AcqRun # 0
             /\ WDrun' = [WDrun EXCEPT !.AcqRun = 0]
             /\ op' = Call("key_stop", 0, 0, 0, -1)
             /\ UNCHANGED <<WDstats, hw>>
          \/ /\ WDstats' = ResetStatistics(WDrun, now)
             /\ op' = Call("key_reset", 0, 0, 0, -1)
             /\ UNCHANGED <<WDrun, hw>>
    /\ pc' = "pass"
    /\ UNCHANGED <<WDbuff, WDcfg, MsgLog, NoFine>>

\* a stopped pass that also empties the event buffers
RunStopped_reset ==
    /\ pc = "pass" /\ WDrun.AcqRun = 0
    /\ WDstats' = IF loc.AcqRunStopFlag # 0
                  THEN UpdateStatistics(WDstats, WDcfg, WDrun, loc.CurrentTime)
                  ELSE WDstats
    /\ WDbuff' = ResetEventBuffer(WDbuff)
    /\ loc' = [loc EXCEPT !.AcqRunStopFlag = 0, !.AcqRunGoFlag = 0]
    /\ op' = Call("stopped", 0, loc.AcqRunStopFlag, 0, -1)
    /\ pc' = "keys"
    /\ UNCHANGED <<WDcfg, MsgLog, hw, NoFine, WDrun>>

\* the pass of a stopped acquisition: the first one after a run updates the
\* statistics
RunStopped ==
    /\ pc = "pass" /\ WDrun.AcqRun = 0
    /\ WDstats' = IF loc.AcqRunStopFlag # 0
                  THEN UpdateStatistics(WDstats, WDcfg, WDrun, loc.CurrentTime)
                  ELSE WDstats
    /\ loc' = [loc EXCEPT !.AcqRunStopFlag = 0, !.AcqRunGoFlag = 0]
    /\ op' = Call("stopped", 0, loc.AcqRunStopFlag, 0, -1)
    /\ pc' = "keys"
    /\ UNCHANGED <<WDbuff, WDcfg, MsgLog, hw, NoFine, WDrun>>

\* the pass of a running acquisition up to ReadData: the first one of a run
\* sets StartTime and resets the event buffers
RunStart ==
    /\ pc = "pass" /\ WDrun.AcqRun # 0
    /\ IF loc.AcqRunGoFlag = 0
       THEN /\ WDstats' = [WDstats EXCEPT !.StartTime = loc.CurrentTime]
            /\ WDbuff' = ResetEventBuffer(WDbuff)
            /\ op' = Call("start", 0, 0, 0, -1)
       ELSE /\ op' = Call("go_on", 0, 0, 0, -1)
            /\ UNCHANGED <<WDstats, WDbuff>>
    /\ loc' = [loc EXCEPT !.AcqRunStopFlag = 1, !.AcqRunGoFlag = 1]
    /\ pc' = "read"
    /\ UNCHANGED <<WDcfg, MsgLog, hw, NoFine, WDrun>>

\* ReadData, then EventsDecoding; an error code makes main() leave the loop
RunRead ==
    /\ pc = "read"
    /\ \E input \in [Boards -> RunBlocks] :
         /\ loc.polled + TotalLen(input, 0) <= MaxPolled
         /\ hw' = [hw EXCEPT !.clock = ClockAfter(hw.clock, input)]
         /\ LET cfg == ReadData(WDcfg, input)
                d   == EventsDecoding(WDbuff, WDstats, cfg, input) IN
            /\ WDcfg' = cfg
            /\ WDbuff' = d.buff
            /\ WDstats' = d.stats
            /\ pc' = IF d.err = "ERR_NONE" THEN "drain" ELSE "quit"
            /\ op' = Call("decode", 0, TotalLen(input, 0), IF d.err = "ERR_NONE" THEN 0 ELSE -1, -1)
            /\ loc' = [loc EXCEPT !.i = 0, !.bd = 0,
                                  !.polled = @ + TotalLen(input, 0),
                                  !.max_num_events = MaxNumEvents(cfg),
                                  !.events = [bd \in Boards |-> -1],
                                  !.taken = [bd \in Boards |-> 0]]
    /\ UNCHANGED <<MsgLog, NoFine, WDrun>>

\* ProcessesUnsynchronizedEvents: the body of the board loop for board loc.bd
\* in iteration loc.i, or the return when the iterations are done.  Calling
\* EventProcessing while the RefEvent of the TOF start board is NULL reads
\* through a null pointer: the process is killed or goes on
RunDrain ==
    /\ pc = "drain"
    /\ IF loc.i >= loc.max_num_events
       THEN /\ pc' = "stats"
            /\ op' = Call("drained", 0, loc.i, 1, -1)
            /\ UNCHANGED <<WDbuff, WDstats, WDcfg, loc>>
       ELSE \E f \in FineTimeStamps :
              LET bd == loc.bd
                  r  == UnsyncBoard(WDbuff, WDstats, WDcfg, bd, f[bd])
                  null == r.deref /\ r.cfg.RefEvent[WDcfg.TOFstartBoard] = NULL IN
              /\ WDbuff' = r.buff
              /\ WDstats' = r.stats
              /\ WDcfg' = r.cfg
              /\ loc' = [loc EXCEPT
                            !.events[bd] = r.event,
                            !.taken[bd] = IF r.event # -1 THEN @ + 1 ELSE @,
                            !.bd = IF bd + 1 >= NumBoards THEN 0 ELSE bd + 1,
                            !.i = IF bd + 1 >= NumBoards THEN @ + 1 ELSE @]
              /\ op' = Call("drain", bd, loc.i, IF r.event # -1 THEN 1 ELSE 0, r.event)
              /\ \/ pc' = "drain"
                 \/ null /\ pc' = "quit"
    /\ UNCHANGED <<MsgLog, hw, NoFine, WDrun>>

\* the end of the pass: UpdateStatistics when the update time has elapsed
RunStats ==
    /\ pc = "stats"
    /\ \/ /\ WDstats' = UpdateStatistics(WDstats, WDcfg, WDrun, loc.CurrentTime)
          /\ op' = Call("update", 0, loc.CurrentTime, 0, -1)
       \/ /\ op' = Call("no_update", 0, loc.CurrentTime, 0, -1)
          /\ UNCHANGED WDstats
    /\ pc' = "keys"
    /\ UNCHANGED <<WDbuff, WDcfg, loc, MsgLog, hw, NoFine, WDrun>>

NextRun ==
    \/ RunKeys
    \/ RunStopped
    \/ RunStart
    \/ RunRead
    \/ RunDrain
    \/ RunStats

SpecRun == InitRun /\ [][NextRun]_vars

-----------------------------------------------------------------------------
(***************************************************************************)
(* SpecLoop: the readout loop of main() with synchronization enabled or   *)
(* disabled by the configuration (WDcfg.SyncEnable), one step per stage   *)
(* of a pass: the keyboard commands, the stopped pass or the start of the *)
(* run, ReadData and EventsDecoding, one whole call of                    *)
(* ProcessesSynchronizedEvents or ProcessesUnsynchronizedEvents, and the  *)
(* update of the statistics.  The keyboard, the stopped pass, the start   *)
(* of the run and the update are the actions of SpecRun.                  *)
(***************************************************************************)
\* the fine time stamps the waveform processing leaves in the events of one
\* iteration: non-zero in every channel (b) or zero in every channel
FtsAll(b) == [bd \in Boards |-> [ch \in Channels |-> b]]

\* the loop of ProcessesSynchronizedEvents from iteration i on; f[i] tells
\* whether the events of iteration i get a fine time stamp, w counts the
\* warnings written
RECURSIVE SyncLoop(_, _, _, _, _, _, _)
SyncLoop(buff, stats, cfg, i, m, f, w) ==
    IF i >= m
    THEN [buff |-> buff, stats |-> stats, cfg |-> cfg, warns |-> w, ret |-> 1]
    ELSE IF \E bd \in Boards : WDBuff_empty(buff, bd) = 1
    THEN [buff |-> buff, stats |-> stats, cfg |-> cfg, warns |-> w, ret |-> 0]
    ELSE LET events == [bd \in Boards |-> WDBuff_peak(buff, bd).slot]
             tdc    == [bd \in Boards |-> RefTDC(buff, cfg, bd, events[bd])]
             tmin   == TDCMin(tdc)
             good   == [bd \in Boards |-> EventGood(tdc, tmin, bd)] IN
         SyncLoop(RoundRemove(buff, good),
                  RoundStats(stats, cfg, good, FtsAll(f[i])),
                  SetRefEvent(cfg, events),
                  i + 1, m, f, w + RoundWarns(stats, good))

\* ProcessesSynchronizedEvents()
ProcessesSynchronizedEvents(buff, stats, cfg, f) ==
    IF MinBuffLen(buff) = 0
    THEN [buff |-> buff, stats |-> stats, cfg |-> cfg, warns |-> 0, ret |-> 0]
    ELSE SyncLoop(buff, stats, cfg, 0, MinBuffLen(buff), f, 0)

\* the loops of ProcessesUnsynchronizedEvents from board bd of iteration i on;
\* r holds the buffers, statistics and configuration reached, and whether
\* EventProcessing was called while the RefEvent of the TOF start board was
\* NULL
RECURSIVE UnsyncLoop(_, _, _, _, _)
UnsyncLoop(r, i, bd, max, f) ==
    IF i >= max
    THEN r
    ELSE IF bd >= NumBoards
    THEN UnsyncLoop(r, i + 1, 0, max, f)
    ELSE LET u == UnsyncBoard(r.buff, r.stats, r.cfg, bd, FtsAll(f[i])[bd]) IN
         UnsyncLoop([buff  |-> u.buff,
                     stats |-> u.stats,
                     cfg   |-> u.cfg,
                     null  |-> r.null \/ (u.deref /\ u.cfg.RefEvent[r.cfg.TOFstartBoard] = NULL)],
                    i, bd + 1, max, f)

\* ProcessesUnsynchronizedEvents()
ProcessesUnsynchronizedEvents(buff, stats, cfg, f) ==
    UnsyncLoop([buff |-> buff, stats |-> stats, cfg |-> cfg, null |-> FALSE],
               0, 0, MaxNumEvents(cfg), f)

\* the configurations, with synchronization enabled or disabled
LoopConfigs ==
    { c @@ [SyncEnable |-> e] :
        c \in { k \in Configs : \E bd \in Boards : \E ch \in Channels : ~k.ChannelEnable[bd][ch] },
        e \in {0, 1} }

\* what one ReadData brings from a board in these runs: up to
\* MAX_NUM_EVENTS_BLT events of one trigger time, 20 or 41 ticks; events of
\* 20 and 41 ticks are 105 ns apart and do not match.  Board 0 triggers at 20
\* ticks only and the other boards hand over at most one event a poll; as
\* many events as a buffer has slots are polled in one run of the model, so
\* that a board polled alone overflows its buffer
LoopBlocks ==
    { b \in InputBlocks(20) : \A k \in 1 .. Len(b) : b[k].TDC[0] = b[1].TDC[0] }

InitLoop ==
    /\ WDbuff = AllocateEventBuffer(NumBoards)
    /\ WDstats = InitStats
    /\ WDcfg \in LoopConfigs
    /\ WDrun = Running
    /\ pc = "keys"
    /\ loc = NoDrain
    /\ op = NoOp
    /\ MsgLog = 0
    /\ hw = InitBoards
    /\ NoFine = ZeroCnt

\* ReadData, then EventsDecoding; an error code makes main() leave the loop
LoopRead ==
    /\ pc = "read"
    /\ \E input \in { f \in [Boards -> LoopBlocks] :
                          /\ \A bd \in Boards : \A k \in 1 .. Len(f[bd]) :
                                 f[bd][k].TDC[0] >= hw.clock[bd]
                          /\ \A k \in 1 .. Len(f[0]) : f[0][k].TDC[0] = 20
                          /\ \A bd \in Boards \ {0} : Len(f[bd]) <= 1 } :
         /\ loc.polled + TotalLen(input, 0) <= EVT_BUF_SIZE
         /\ hw' = [hw EXCEPT !.clock = ClockAfter(hw.clock, input)]
         /\ LET cfg == ReadData(WDcfg, input)
                d   == EventsDecoding(WDbuff, WDstats, cfg, input) IN
            /\ WDcfg' = cfg
            /\ WDbuff' = d.buff
            /\ WDstats' = d.stats
            /\ pc' = IF d.err = "ERR_NONE" THEN "process" ELSE "quit"
            /\ op' = Call("decode", 0, TotalLen(input, 0), IF d.err = "ERR_NONE" THEN 0 ELSE -1, -1)
            /\ loc' = [loc EXCEPT !.polled = @ + TotalLen(input, 0),
                                  !.max_num_events = MaxNumEvents(cfg)]
    /\ UNCHANGED <<MsgLog, NoFine, WDrun>>

\* if (WDcfg.SyncEnable) ProcessesSynchronizedEvents();
LoopSync ==
    /\ pc = "process" /\ WDcfg.SyncEnable # 0
    /\ \E f \in [0 .. MinBuffLen(WDbuff) - 1 -> BOOLEAN] :
         LET r == ProcessesSynchronizedEvents(WDbuff, WDstats, WDcfg, f) IN
         /\ WDbuff' = r.buff
         /\ WDstats' = r.stats
         /\ WDcfg' = r.cfg
         /\ MsgLog' = MsgLog + r.warns
         /\ op' = Call("sync", 0, MinBuffLen(WDbuff), r.ret, -1)
    /\ pc' = "stats"
    /\ UNCHANGED <<loc, hw, NoFine, WDrun>>

\* else ProcessesUnsynchronizedEvents(); a call of EventProcessing that reads
\* through a NULL RefEvent kills the process or goes on
LoopUnsync ==
    /\ pc = "process" /\ WDcfg.SyncEnable = 0
    /\ \E f \in [0 .. loc.max_num_events - 1 -> BOOLEAN] :
         LET r == ProcessesUnsynchronizedEvents(WDbuff, WDstats, WDcfg, f) IN
         /\ WDbuff' = r.buff
         /\ WDstats' = r.stats
         /\ WDcfg' = r.cfg
         /\ op' = Call("unsync", 0, loc.max_num_events, 1, -1)
         /\ \/ pc' = "stats"
            \/ r.null /\ pc' = "quit"
    /\ UNCHANGED <<loc, MsgLog, hw, NoFine, WDrun>>

NextLoop ==
    \/ RunKeys
    \/ RunStopped
    \/ RunStart
    \/ LoopRead
    \/ LoopSync
    \/ LoopUnsync
    \/ RunStats

SpecLoop == InitLoop /\ [][NextLoop]_vars

-----------------------------------------------------------------------------
(***************************************************************************)
(* Properties of the buffer interface (checked under Spec).               *)
(***************************************************************************)
Min(a, b) == IF a <= b THEN a ELSE b

Allocated(bd) == WDbuff.buffer[bd] # NULL

\* C1: for every board, after any sequence of WDBuff_reset, WDBuff_added(n)
\* and WDBuff_remove(n) calls, WDBuff_used_space lies in 0 .. EVT_BUF_SIZE-1
\* and WDBuff_full returns 1 exactly when WDBuff_used_space = EVT_BUF_SIZE-1.
C1_UsedSpaceBounded ==
    \A bd \in Boards :
        /\ WDbuff.head[bd] \in Slots
        /\ WDbuff.tail[bd] \in Slots
        /\ WDBuff_used_space(WDbuff, bd) >= 0
        /\ WDBuff_used_space(WDbuff, bd) <= EVT_BUF_SIZE - 1
        /\ (WDBuff_full(WDbuff, bd) = 1) <=> (WDBuff_used_space(WDbuff, bd) = EVT_BUF_SIZE - 1)

\* a WDBuff_added call that asked for more than fitted has filled a buffer
\* whose live region wraps around the end of the array
C1_Witness ==
    /\ op.name = "added" /\ op.ret >= 1 /\ op.ret < op.arg
    /\ WDBuff_full(WDbuff, op.bd) = 1
    /\ WDbuff.head[op.bd] < WDbuff.tail[op.bd]
    /\ WDBuff_used_space(WDbuff, op.bd) = EVT_BUF_SIZE - 1

\* C3: for every board and every reachable cursor state,
\* WDBuff_used_space + WDBuff_free_space = EVT_BUF_SIZE - 1.
C3_UsedPlusFree ==
    \A bd \in Boards :
        WDBuff_used_space(WDbuff, bd) + WDBuff_free_space(WDbuff, bd) = EVT_BUF_SIZE - 1

\* a wrapped, partly filled buffer (head < tail, neither empty nor full)
C3_Witness ==
    \E bd \in Boards :
        /\ Allocated(bd)
        /\ WDbuff.head[bd] < WDbuff.tail[bd]
        /\ WDBuff_full(WDbuff, bd) = 0
        /\ WDBuff_used_space(WDbuff, bd) >= 1
        /\ WDBuff_free_space(WDbuff, bd) >= 1

\* what a WDBuff_added(n) call, n >= 0, on an allocated buffer does: head
\* advances by min(n, free space before), that number is returned, tail and
\* the scan cursor stay
AddedEffect ==
    (op'.name = "added" /\ op'.arg >= 0 /\ Allocated(op'.bd)) =>
        LET bd == op'.bd
            k  == Min(op'.arg, WDBuff_free_space(WDbuff, bd)) IN
        /\ op'.ret = k
        /\ WDbuff'.head[bd] = (WDbuff.head[bd] + k) % EVT_BUF_SIZE
        /\ WDbuff'.tail = WDbuff.tail
        /\ WDbuff'.tmp_pos = WDbuff.tmp_pos

\* C10 as stated: WDBuff_added(n) advances head by min(n, free space), returns
\* that number, leaves tail and the cursor unchanged, and no operation other
\* than WDBuff_added changes head.
C10_OnlyAddedMovesHead ==
    [][ /\ AddedEffect
        /\ (op'.name # "added" => WDbuff'.head = WDbuff.head) ]_vars

\* C10 amended: WDBuff_added(n) advances head by min(n, free space), returns
\* that number, leaves tail and the cursor unchanged; the only other operation
\* that changes head is WDBuff_reset, which sets it to 0.
C10_AddedOrResetMovesHead ==
    [][ /\ AddedEffect
        /\ (op'.name \notin {"added", "reset"} => WDbuff'.head = WDbuff.head)
        /\ (op'.name = "reset" =>
               \A bd \in Boards :
                   WDbuff'.head[bd] = IF bd = op'.bd /\ Allocated(bd)
                                      THEN 0 ELSE WDbuff.head[bd]) ]_vars

\* a WDBuff_added call stopped early by a full buffer, after wrapping head
C10_Witness ==
    /\ op.name = "added" /\ op.ret >= 1 /\ op.ret < op.arg
    /\ Allocated(op.bd)
    /\ WDbuff.head[op.bd] = 0
    /\ WDbuff.tail[op.bd] = 1

\* C2: events leave a board's ring buffer in the order they were committed:
\* the slot returned by the n-th successful peek-then-remove holds the event
\* written by the n-th successful commit, also across wrap-around.
C2_FifoOrder ==
    pc = "fifo" =>
        \A bd \in Boards :
            /\ loc.npop[bd] <= loc.ncommit[bd]
            /\ loc.npop[bd] >= 1 => \A g \in Groups : loc.last[bd].TDC[g] = loc.npop[bd]
            /\ WDBuff_used_space(WDbuff, bd) = loc.ncommit[bd] - loc.npop[bd]

\* a board that has been filled, has wrapped, and whose last removal took the
\* event from beyond the end of the first pass over the array
C2_Witness ==
    /\ pc = "fifo" /\ op.name = "pop" /\ op.ret = 1
    /\ loc.npop[op.bd] > EVT_BUF_SIZE
    /\ op.slot < WDbuff.head[op.bd]
    /\ \E bd \in Boards : bd # op.bd /\ WDBuff_full(WDbuff, bd) = 1

-----------------------------------------------------------------------------
(***************************************************************************)
(* Properties of ProcessesSynchronizedEvents (checked under SpecSync).    *)
(***************************************************************************)
\* a step that runs one round of the loop to its end
RoundDone == pc = "round" /\ op'.name = "round" /\ op'.ret # 0

\* the round of that step marked every board / not every board
FullRound == RoundDone /\ \A bd \in Boards : loc'.event_good[bd]

PartialRound == RoundDone /\ \E bd \in Boards : ~loc'.event_good[bd]

\* the step discards exactly the oldest event of board bd
OneDiscarded(bd) ==
    /\ WDbuff'.tail[bd] = (WDbuff.tail[bd] + 1) % EVT_BUF_SIZE
    /\ WDbuff'.head[bd] = WDbuff.head[bd]
    /\ WDBuff_used_space(WDbuff', bd) = WDBuff_used_space(WDbuff, bd) - 1

NoneDiscarded(bd) ==
    /\ WDbuff'.tail[bd] = WDbuff.tail[bd]
    /\ WDbuff'.head[bd] = WDbuff.head[bd]

\* the step adds 1 to counter cnt of the enabled channels of the boards in bds
\* and leaves it alone everywhere else
CountedOn(cnt, bds) ==
    \A bd \in Boards : \A ch \in Channels :
        WDstats'[cnt][bd][ch] =
            WDstats[cnt][bd][ch] + (IF bd \in bds /\ WDcfg.ChannelEnable[bd][ch] THEN 1 ELSE 0)

Matched == { bd \in Boards : loc'.event_good[bd] }

\* the least of the reference time stamps peeked in the last round
PeekedMin == CHOOSE t \in { loc.tdc[bd] : bd \in Boards } : \A bd \in Boards : t <= loc.tdc[bd]

\* C4: in a synchronization round, a board whose peeked reference time stamp is
\* exactly SYNC_WIN ns (20 ticks of 5 ns) after the earliest one is marked
\* matched together with the earliest; one tick more (105 ns) and the later
\* board is not marked matched.
C4_WindowBoundary ==
    (pc \in {"read", "round"} /\ op.name = "round" /\ op.ret # 0) =>
        \A a, b \in Boards :
            loc.tdc[a] = PeekedMin =>
                /\ (loc.tdc[b] - loc.tdc[a]) * 5 = SYNC_WIN =>
                      loc.event_good[a] /\ loc.event_good[b]
                /\ (loc.tdc[b] - loc.tdc[a]) * 5 = SYNC_WIN + 5 =>
                      loc.event_good[a] /\ ~loc.event_good[b]

\* a round of two events exactly SYNC_WIN ns apart, both marked
C4_Witness ==
    /\ op.name = "round" /\ op.ret # 0
    /\ \E a, b \in Boards :
         /\ (loc.tdc[b] - loc.tdc[a]) * 5 = SYNC_WIN
         /\ loc.event_good[a] /\ loc.event_good[b]

\* C6 as stated: in every partial-match round EvLost_cnt grows by 1 for every
\* enabled channel of every board NOT matched in the round (and for no matched
\* board), and UnSyncEv_cnt grows by the number of unmatched boards.
C6_LostOnUnmatched ==
    [][ PartialRound =>
          /\ CountedOn("EvLost_cnt", Boards \ Matched)
          /\ WDstats'.UnSyncEv_cnt = WDstats.UnSyncEv_cnt + Cardinality(Boards \ Matched) ]_vars

\* C6 amended: in every partial-match round EvLost_cnt grows by 1 for every
\* enabled channel of every board that WAS marked matched (its event, near the
\* earliest time stamp, is dropped for lack of a partner) and for no unmatched
\* board, and UnSyncEv_cnt grows by the number of unmatched boards.
C6_LostOnMatched ==
    [][ PartialRound =>
          /\ CountedOn("EvLost_cnt", Matched)
          /\ WDstats'.UnSyncEv_cnt = WDstats.UnSyncEv_cnt + Cardinality(Boards \ Matched) ]_vars

\* a partial round has counted a lost event on the matched board only
C6_Witness ==
    /\ op.name = "round" /\ op.ret # 0
    /\ WDstats.UnSyncEv_cnt >= 1
    /\ \E a, b \in Boards :
         /\ loc.event_good[a] /\ ~loc.event_good[b]
         /\ \E ch \in Channels : WDstats.EvLost_cnt[a][ch] >= 1
         /\ \A ch \in Channels : WDstats.EvLost_cnt[b][ch] = 0

\* C7 as stated: in every round every peeked board, matched or not, has exactly
\* one event discarded and EvProcessed_cnt grown by 1 for each enabled channel.
C7_EveryBoardDiscards ==
    [][ RoundDone =>
          /\ \A bd \in Boards : OneDiscarded(bd)
          /\ CountedOn("EvProcessed_cnt", Boards) ]_vars

\* C7 amended: in every round every board marked matched has exactly one event
\* discarded and EvProcessed_cnt grown by 1 for each enabled channel; a board
\* not marked matched keeps its event and its EvProcessed_cnt.
C7_MatchedBoardsDiscard ==
    [][ RoundDone =>
          /\ \A bd \in Boards : IF bd \in Matched THEN OneDiscarded(bd) ELSE NoneDiscarded(bd)
          /\ CountedOn("EvProcessed_cnt", Matched) ]_vars

\* after a partial round the unmatched board still holds the event it showed
C7_Witness ==
    /\ op.name = "round" /\ op.ret # 0
    /\ \E a, b \in Boards :
         /\ loc.event_good[a] /\ ~loc.event_good[b]
         /\ WDbuff.tail[b] = loc.events[b]
         /\ WDbuff.tail[a] = (loc.events[a] + 1) % EVT_BUF_SIZE
         /\ \E ch \in Channels : WDstats.EvProcessed_cnt[a][ch] >= 1

\* C8: in every full-match round each board has exactly one event discarded,
\* EvProcessed_cnt grows by 1 for every enabled channel of every board, and
\* EvLost_cnt and UnSyncEv_cnt do not change.
C8_FullMatchRound ==
    [][ FullRound =>
          /\ \A bd \in Boards : OneDiscarded(bd)
          /\ CountedOn("EvProcessed_cnt", Boards)
          /\ WDstats'.EvLost_cnt = WDstats.EvLost_cnt
          /\ WDstats'.UnSyncEv_cnt = WDstats.UnSyncEv_cnt ]_vars

\* a full-match round of events with different time stamps has been processed
C8_Witness ==
    /\ op.name = "round" /\ op.ret # 0
    /\ \A bd \in Boards : loc.event_good[bd]
    /\ \E a, b \in Boards : loc.tdc[a] # loc.tdc[b]
    /\ \A bd \in Boards : \E ch \in Channels : WDstats.EvProcessed_cnt[bd][ch] >= 1

\* C9: if a board's buffer is empty when ProcessesSynchronizedEvents starts,
\* the call returns 0 and changes no head, tail, cursor or counter.
C9_EmptyBufferNoProgress ==
    [][ (pc = "process" /\ \E bd \in Boards : WDBuff_empty(WDbuff, bd) = 1) =>
          /\ op'.name = "sync" /\ op'.ret = 0
          /\ pc' = "read"
          /\ WDbuff' = WDbuff
          /\ WDstats' = WDstats
          /\ MsgLog' = MsgLog ]_vars

\* the call has returned 0 with events waiting on one board and none on another
C9_Witness ==
    /\ op.name = "sync" /\ op.ret = 0 /\ pc = "read"
    /\ \E a, b \in Boards :
         /\ WDBuff_empty(WDbuff, a) = 1
         /\ WDBuff_used_space(WDbuff, b) >= 2

-----------------------------------------------------------------------------
(***************************************************************************)
(* The scripted acquisition (checked under SpecScript).                    *)
(***************************************************************************)
\* the boards have handed over every event and ProcessesSynchronizedEvents
\* has returned with nothing left that it could process
ScriptDone ==
    /\ pc = "read"
    /\ \A bd \in Boards : hw.pending[bd] = <<>>
    /\ MinBuffLen(WDbuff) = 0

-----------------------------------------------------------------------------
(***************************************************************************)
(* The single operations of the buffer interface (checked under Spec).    *)
(***************************************************************************)
\* number of slots from a to b going forward around the array
Forward(a, b) == (b - a + EVT_BUF_SIZE) % EVT_BUF_SIZE

\* C11: WDBuff_remove(n) with n >= 0 on an allocated buffer advances tail
\* (mod EVT_BUF_SIZE) by exactly min(n, used space before the call), returns
\* that number, never moves tail past head, and leaves head unchanged.
C11_RemoveEffect ==
    [][ (op'.name = "remove" /\ op'.arg >= 0 /\ Allocated(op'.bd)) =>
            LET bd == op'.bd
                k  == Min(op'.arg, WDBuff_used_space(WDbuff, bd)) IN
            /\ op'.ret = k
            /\ WDbuff'.tail[bd] = (WDbuff.tail[bd] + k) % EVT_BUF_SIZE
            /\ WDBuff_used_space(WDbuff', bd) = WDBuff_used_space(WDbuff, bd) - k
            /\ WDbuff'.head = WDbuff.head ]_vars

\* a WDBuff_remove call that asked for more than the buffer held has emptied
\* it, tail going around the end of the array
C11_Witness ==
    /\ op.name = "remove" /\ op.ret >= 2 /\ op.ret < op.arg
    /\ Allocated(op.bd)
    /\ WDbuff.tail[op.bd] = WDbuff.head[op.bd]
    /\ WDbuff.tail[op.bd] \in 0 .. 1

\* C12: on an allocated buffer WDBuff_get_write_pointer fails (returns -1 and
\* hands out no slot) when the buffer is full; otherwise it returns the slot at
\* index head; either way head, tail and the cursor are unchanged.
C12_WritePointer ==
    [][ (op'.name = "get_write_pointer" /\ Allocated(op'.bd)) =>
            LET bd == op'.bd IN
            /\ WDbuff' = WDbuff
            /\ IF WDBuff_full(WDbuff, bd) = 1
               THEN op'.ret = -1 /\ op'.slot = -1
               ELSE op'.ret = 0 /\ op'.slot = WDbuff.head[bd] ]_vars

\* WDBuff_get_write_pointer has just failed on a full buffer
C12_Witness ==
    /\ op.name = "get_write_pointer" /\ op.ret = -1
    /\ Allocated(op.bd)
    /\ WDBuff_full(WDbuff, op.bd) = 1
    /\ WDBuff_used_space(WDbuff, op.bd) = EVT_BUF_SIZE - 1

\* C13: on an allocated buffer WDBuff_peak fails (returns -1) when the buffer
\* is empty; otherwise it returns the slot at index tail; it changes none of
\* head, tail and cursor, so a peek that follows a peek of the same board
\* returns the same slot.
C13_Peak ==
    [][ (op'.name = "peak" /\ Allocated(op'.bd)) =>
            LET bd == op'.bd IN
            /\ WDbuff' = WDbuff
            /\ IF WDBuff_empty(WDbuff, bd) = 1
               THEN op'.ret = -1 /\ op'.slot = -1
               ELSE op'.ret = 0 /\ op'.slot = WDbuff.tail[bd]
            /\ (op.name = "peak" /\ op.bd = bd) => op' = op ]_vars

\* WDBuff_peak has just returned the oldest slot of a wrapped buffer
C13_Witness ==
    /\ op.name = "peak" /\ op.ret = 0
    /\ Allocated(op.bd)
    /\ op.slot = WDbuff.tail[op.bd]
    /\ WDbuff.head[op.bd] < WDbuff.tail[op.bd]

\* C14 as stated: on an allocated buffer WDBuff_set_position(pos) succeeds and
\* sets the cursor to pos for every pos in the circular range from tail
\* (inclusive) to head (exclusive) of a non-empty buffer, also when the live
\* region wraps (head < tail); it fails and leaves the cursor unchanged exactly
\* when pos is outside that range or the buffer is empty.
C14_SetPositionCircular ==
    [][ (op'.name = "set_position" /\ Allocated(op'.bd)) =>
            LET bd  == op'.bd
                pos == op'.arg
                inRange == /\ WDBuff_empty(WDbuff, bd) = 0
                           /\ pos \in Slots
                           /\ Forward(WDbuff.tail[bd], pos) < WDBuff_used_space(WDbuff, bd) IN
            /\ WDbuff'.head = WDbuff.head /\ WDbuff'.tail = WDbuff.tail
            /\ IF inRange
               THEN op'.ret = 0 /\ WDbuff'.tmp_pos[bd] = pos
               ELSE op'.ret = -1 /\ WDbuff'.tmp_pos = WDbuff.tmp_pos ]_vars

C16_CursorInLiveRegion ==
    /\ \A bd \in Boards :
          (Allocated(bd) /\ WDBuff_empty(WDbuff, bd) = 0) =>
              Forward(WDbuff.tail[bd], WDbuff.tmp_pos[bd]) <= WDBuff_used_space(WDbuff, bd)
    /\ (op.name = "get_next" /\ op.ret = 0) =>
          Forward(WDbuff.tail[op.bd], op.slot) < WDBuff_used_space(WDbuff, op.bd)

-----------------------------------------------------------------------------
(***************************************************************************)
(* Properties of UpdateStatistics (checked under SpecStats).              *)
(***************************************************************************)
\* the step is a call of UpdateStatistics
Updates == op'.name = "update"

EnabledChannels == {bc \in Boards \X Channels : WDcfg.ChannelEnable[bc[1]][bc[2]]}

\* C17 as stated: when UpdateStatistics computes an input rate of 1000 and a
\* lost rate of 1200 for an enabled channel, it leaves the lost rate at 1000
\* and a DeadTime of 0.
C17_LostClampedDeadZero ==
    [][ Updates =>
          \A bc \in EnabledChannels :
             LET b == bc[1]  ch == bc[2] IN
             (/\ WDstats'.EvInput_rate[b][ch] = FracInt(1000)
              /\ LostRate(ChannelOf(WDstats, b, ch), WDrun) = FracInt(1200))
             => /\ WDstats'.EvLost_rate[b][ch] = FracInt(1000)
                /\ WDstats'.DeadTime[b][ch] = FracZero ]_vars

\* C17, amended: when UpdateStatistics computes an input rate of 1000 and a
\* lost rate of 1200 for an enabled channel, it leaves the lost rate at 1000,
\* the input rate, and a DeadTime of 1 - (1000 - 1000) / 1000 = 1, which is
\* within 0 .. 1.
C17_LostClampedDeadOne ==
    [][ Updates =>
          \A bc \in EnabledChannels :
             LET b == bc[1]  ch == bc[2] IN
             (/\ WDstats'.EvInput_rate[b][ch] = FracInt(1000)
              /\ LostRate(ChannelOf(WDstats, b, ch), WDrun) = FracInt(1200))
             => /\ WDstats'.EvLost_rate[b][ch] = FracInt(1000)
                /\ WDstats'.DeadTime[b][ch] = FracOne ]_vars

\* UpdateStatistics has just been called with 1200 lost triggers and 1000
\* input triggers counted over one second of a channel read at 1000 events a
\* second: the lost rate is the input rate
C17_Witness ==
    /\ op.name = "update"
    /\ \E bc \in EnabledChannels :
          LET b == bc[1]  ch == bc[2] IN
          /\ WDstats.EvLost_pcnt[b][ch] = 1200
          /\ WDstats.PrevLostTrgUpdateTime[b][ch] = NsPerSec
          /\ WDstats.EvInput_pcnt[b][ch] = 1000
          /\ WDstats.PrevICRUpdateTime[b][ch] = NsPerSec
          /\ WDstats.EvInput_rate[b][ch] = FracInt(1000)
          /\ WDstats.EvLost_rate[b][ch] = FracInt(1000)
          /\ WDstats.DeadTime[b][ch] = FracOne

\* C18 as stated: after every call of UpdateStatistics, whatever the run
\* state and the averaging mode, the EvInput_rate of an enabled channel whose
\* EvInput_cnt has all bits set is -1.
C18_SentinelAlwaysNotAvailable ==
    op.name = "update" =>
        \A bc \in EnabledChannels :
           WDstats.EvInput_cnt[bc[1]][bc[2]] = AllBitsSet
           => WDstats.EvInput_rate[bc[1]][bc[2]] = NotAvailable

\* C18, amended: after every call of UpdateStatistics the EvInput_rate of an
\* enabled channel whose EvInput_cnt has all bits set is -1 in both averaging
\* modes while the acquisition runs; while it does not run the rate is 0,
\* raised to EvRead_rate when that is larger.
C18_SentinelWhileRunning ==
    op.name = "update" =>
        \A bc \in EnabledChannels :
           WDstats.EvInput_cnt[bc[1]][bc[2]] = AllBitsSet
           => WDstats.EvInput_rate[bc[1]][bc[2]] =
                 IF WDrun.AcqRun # 0 THEN NotAvailable
                 ELSE FracMax(FracZero, WDstats.EvRead_rate[bc[1]][bc[2]])

\* the second of two calls of UpdateStatistics has left -1 in a running
\* acquisition, for a channel that is read at 1000 events a second over the run
C18_Witness ==
    /\ op.name = "update" /\ loc.updates = MaxUpdates
    /\ WDrun.AcqRun = 1 /\ WDrun.IntegratedRates = 1
    /\ \E bc \in EnabledChannels :
          /\ WDstats.EvInput_cnt[bc[1]][bc[2]] = AllBitsSet
          /\ WDstats.EvRead_rate[bc[1]][bc[2]] = FracInt(1000)
          /\ WDstats.EvInput_rate[bc[1]][bc[2]] = NotAvailable

\* C19 as stated: a call of UpdateStatistics that follows another with no
\* counter or time stamp changed in between leaves EvRead_rate and
\* EvFilt_rate of every enabled channel as the first call left them, in both
\* averaging modes.
C19_StalledRatesKept ==
    [][ (op.name = "update" /\ Updates) =>
          \A bc \in EnabledChannels :
             /\ WDstats'.EvRead_rate[bc[1]][bc[2]] = WDstats.EvRead_rate[bc[1]][bc[2]]
             /\ WDstats'.EvFilt_rate[bc[1]][bc[2]] = WDstats.EvFilt_rate[bc[1]][bc[2]] ]_vars

\* C19, amended: a call of UpdateStatistics that follows another with no
\* counter or time stamp changed in between leaves EvRead_rate and
\* EvFilt_rate of every enabled channel as the first call left them in
\* integrated mode, and leaves both at 0 in instantaneous mode.
C19_StalledRatesKeptOrZero ==
    [][ (op.name = "update" /\ Updates) =>
          \A bc \in EnabledChannels :
             IF WDrun.IntegratedRates # 0
             THEN /\ WDstats'.EvRead_rate[bc[1]][bc[2]] = WDstats.EvRead_rate[bc[1]][bc[2]]
                  /\ WDstats'.EvFilt_rate[bc[1]][bc[2]] = WDstats.EvFilt_rate[bc[1]][bc[2]]
             ELSE /\ WDstats'.EvRead_rate[bc[1]][bc[2]] = FracZero
                  /\ WDstats'.EvFilt_rate[bc[1]][bc[2]] = FracZero ]_vars

\* in instantaneous mode a second call has left a rate of 0 for a channel
\* whose 1000 events, read over one second, the first call had accounted for
C19_Witness ==
    /\ op.name = "update" /\ loc.updates = MaxUpdates
    /\ WDrun.IntegratedRates = 0
    /\ \E bc \in EnabledChannels :
          /\ WDstats.EvRead_cnt[bc[1]][bc[2]] = 1000
          /\ WDstats.EvRead_pcnt[bc[1]][bc[2]] = 1000
          /\ WDstats.EvRead_dcnt[bc[1]][bc[2]] = 0
          /\ WDstats.PrevReadTstamp[bc[1]][bc[2]] = NsPerSec
          /\ WDstats.EvRead_rate[bc[1]][bc[2]] = FracZero

\* C20: the first call of UpdateStatistics after ResetStatistics gives every
\* enabled channel the EvRead_rate that the same call gives it in the other
\* averaging mode.
C20_FirstUpdateModeIndependent ==
    [][ (pc = "stats_input" /\ Updates) =>
          \A bc \in EnabledChannels :
             WDstats'.EvRead_rate[bc[1]][bc[2]] =
                UpdateStatistics(WDstats, WDcfg,
                                 [WDrun EXCEPT !.IntegratedRates = 1 - @],
                                 loc'.now).EvRead_rate[bc[1]][bc[2]] ]_vars

\* the first call after a reset has computed a rate of 1000 events a second
\* over the whole run
C20_Witness ==
    /\ op.name = "update" /\ loc.updates = 1
    /\ WDrun.IntegratedRates = 1
    /\ \E bc \in EnabledChannels :
          /\ WDstats.EvRead_dcnt[bc[1]][bc[2]] = 1000
          /\ WDstats.PrevReadTstamp[bc[1]][bc[2]] = NsPerSec
          /\ WDstats.EvRead_rate[bc[1]][bc[2]] = FracInt(1000)

\* C21 as stated: at the end of every call of UpdateStatistics every previous
\* counter of an enabled channel equals its counter and every previous time
\* stamp its latest time stamp, whichever rate branch was taken.
C21_AllSnapshotsSaved ==
    op.name = "update" =>
        \A bc \in EnabledChannels :
           LET b == bc[1]  ch == bc[2] IN
           /\ WDstats.EvRead_pcnt[b][ch] = WDstats.EvRead_cnt[b][ch]
           /\ WDstats.EvFilt_pcnt[b][ch] = WDstats.EvFilt_cnt[b][ch]
           /\ WDstats.EvProcessed_pcnt[b][ch] = WDstats.EvProcessed_cnt[b][ch]
           /\ WDstats.EvInput_pcnt[b][ch] = WDstats.EvInput_cnt[b][ch]
           /\ WDstats.EvLost_pcnt[b][ch] = WDstats.EvLost_cnt[b][ch]
           /\ WDstats.PrevReadTstamp[b][ch] = WDstats.LatestReadTstamp[b][ch]
           /\ WDstats.PrevProcTstamp[b][ch] = WDstats.LatestProcTstamp[b][ch]
           /\ WDstats.PrevICRUpdateTime[b][ch] = WDstats.ICRUpdateTime[b][ch]
           /\ WDstats.PrevLostTrgUpdateTime[b][ch] = WDstats.LostTrgUpdateTime[b][ch]

\* C21, amended: at the end of every call of UpdateStatistics, for every
\* enabled channel, EvRead_pcnt, EvFilt_pcnt, EvProcessed_pcnt, PrevReadTstamp
\* and PrevProcTstamp equal their current fields; EvInput_pcnt and
\* PrevICRUpdateTime are saved only when the input rate was computed from the
\* counter (acquisition running, counter available, read rate and
\* ICRUpdateTime not 0, and integrated mode or a newer ICRUpdateTime), and
\* EvLost_pcnt and PrevLostTrgUpdateTime only when the lost rate was computed
\* (integrated mode with LostTrgUpdateTime > 0, or a newer LostTrgUpdateTime);
\* otherwise these four keep their values.
C21_SnapshotsSavedWhenUsed ==
    [][ Updates =>
          \A bc \in EnabledChannels :
             LET b == bc[1]  ch == bc[2]
                 icr == /\ WDrun.AcqRun # 0
                        /\ WDstats.EvInput_cnt[b][ch] # AllBitsSet
                        /\ WDstats'.EvRead_rate[b][ch] # FracZero
                        /\ WDstats.ICRUpdateTime[b][ch] # 0
                        /\ \/ WDrun.IntegratedRates # 0
                           \/ WDstats.ICRUpdateTime[b][ch] > WDstats.PrevICRUpdateTime[b][ch]
                 lost == \/ WDrun.IntegratedRates # 0 /\ WDstats.LostTrgUpdateTime[b][ch] > 0
                         \/ WDstats.LostTrgUpdateTime[b][ch] > WDstats.PrevLostTrgUpdateTime[b][ch]
             IN
             /\ WDstats'.EvRead_pcnt[b][ch] = WDstats.EvRead_cnt[b][ch]
             /\ WDstats'.EvFilt_pcnt[b][ch] = WDstats.EvFilt_cnt[b][ch]
             /\ WDstats'.EvProcessed_pcnt[b][ch] = WDstats.EvProcessed_cnt[b][ch]
             /\ WDstats'.PrevReadTstamp[b][ch] = WDstats.LatestReadTstamp[b][ch]
             /\ WDstats'.PrevProcTstamp[b][ch] = WDstats.LatestProcTstamp[b][ch]
             /\ \A f \in {"EvRead_cnt", "EvFilt_cnt", "EvProcessed_cnt", "EvInput_cnt",
                           "EvLost_cnt", "LatestReadTstamp", "LatestProcTstamp",
                           "ICRUpdateTime", "LostTrgUpdateTime"} :
                   WDstats'[f][b][ch] = WDstats[f][b][ch]
             /\ WDstats'.EvInput_pcnt[b][ch] =
                   IF icr THEN WDstats.EvInput_cnt[b][ch] ELSE WDstats.EvInput_pcnt[b][ch]
             /\ WDstats'.PrevICRUpdateTime[b][ch] =
                   IF icr THEN WDstats.ICRUpdateTime[b][ch] ELSE WDstats.PrevICRUpdateTime[b][ch]
             /\ WDstats'.EvLost_pcnt[b][ch] =
                   IF lost THEN WDstats.EvLost_cnt[b][ch] ELSE WDstats.EvLost_pcnt[b][ch]
             /\ WDstats'.PrevLostTrgUpdateTime[b][ch] =
                   IF lost THEN WDstats.LostTrgUpdateTime[b][ch]
                   ELSE WDstats.PrevLostTrgUpdateTime[b][ch] ]_vars

\* UpdateStatistics has saved the counters and time stamp of the read events
\* of a channel, and has left the previous lost counter at 0 although 1200
\* triggers are counted as lost, their time stamp being 0
C21_Witness ==
    /\ op.name = "update"
    /\ \E bc \in EnabledChannels :
          LET b == bc[1]  ch == bc[2] IN
          /\ WDstats.EvRead_cnt[b][ch] = 1000 /\ WDstats.EvRead_pcnt[b][ch] = 1000
          /\ WDstats.LatestReadTstamp[b][ch] = NsPerSec
          /\ WDstats.PrevReadTstamp[b][ch] = NsPerSec
          /\ WDstats.EvLost_cnt[b][ch] = 1200 /\ WDstats.EvLost_pcnt[b][ch] = 0
          /\ WDstats.LostTrgUpdateTime[b][ch] = 0

\* C29: after every UpdateStatistics, for every enabled channel, the rate of
\* filtered events is a number not above the rate of events read, and the
\* output rate is a number that is not negative.
C29_FilteredWithinRead ==
    [][ Updates =>
          \A bc \in EnabledChannels :
             LET b == bc[1]  ch == bc[2] IN
             /\ IsFinite(WDstats'.EvFilt_rate[b][ch]) /\ IsFinite(WDstats'.EvRead_rate[b][ch])
             /\ IsFinite(WDstats'.EvOutput_rate[b][ch])
             /\ ~FracGreater(WDstats'.EvFilt_rate[b][ch], WDstats'.EvRead_rate[b][ch])
             /\ ~FracLess(WDstats'.EvOutput_rate[b][ch], FracZero) ]_vars

\* UpdateStatistics has just been called for a channel with 2000 filtered and
\* 1000 read events in one second: the filtered rate is lowered to the rate of
\* events read, the output rate keeps the 2000
C29_Witness ==
    /\ op.name = "update"
    /\ \E bc \in EnabledChannels :
          LET b == bc[1]  ch == bc[2] IN
          /\ WDstats.EvFilt_pcnt[b][ch] = 2000
          /\ WDstats.EvRead_pcnt[b][ch] = 1000
          /\ WDstats.EvRead_rate[b][ch] = FracInt(1000)
          /\ WDstats.EvFilt_rate[b][ch] = FracInt(1000)
          /\ WDstats.EvOutput_rate[b][ch] = FracInt(2000)

\* C30: after every UpdateStatistics, for every enabled channel whose input
\* rate is not the -1 of a missing counter, the input rate is a number not
\* below the rate of events read.
C30_InputNotBelowRead ==
    [][ Updates =>
          \A bc \in EnabledChannels :
             LET b == bc[1]  ch == bc[2] IN
             WDstats'.EvInput_rate[b][ch] # NotAvailable
             => /\ IsFinite(WDstats'.EvInput_rate[b][ch]) /\ IsFinite(WDstats'.EvRead_rate[b][ch])
                /\ ~FracLess(WDstats'.EvInput_rate[b][ch], WDstats'.EvRead_rate[b][ch]) ]_vars

\* UpdateStatistics has just been called, with the acquisition running, for a
\* channel read at 1000 events a second whose trigger counter was updated and
\* shows no trigger: the input rate computed is 0 and is raised to 1000
C30_Witness ==
    /\ op.name = "update"
    /\ WDrun.AcqRun # 0
    /\ \E bc \in EnabledChannels :
          LET b == bc[1]  ch == bc[2] IN
          /\ WDstats.EvInput_cnt[b][ch] = 0
          /\ WDstats.ICRUpdateTime[b][ch] = NsPerSec
          /\ WDstats.PrevICRUpdateTime[b][ch] = NsPerSec
          /\ WDstats.EvRead_rate[b][ch] = FracInt(1000)
          /\ WDstats.EvInput_rate[b][ch] = FracInt(1000)

\* C31 as stated: after every UpdateStatistics, for every enabled channel, the
\* lost rate is -1 exactly when the lost counter is not available (all bits
\* set, as for the input counter); when the counter is available the lost
\* rate is a number, not negative and not above the input rate.
C31_LostRateSentinel ==
    [][ Updates =>
          \A bc \in EnabledChannels :
             LET b == bc[1]  ch == bc[2]
                 lost == WDstats'.EvLost_rate[b][ch]
                 in   == WDstats'.EvInput_rate[b][ch] IN
             /\ (lost = NotAvailable) <=> (WDstats.EvLost_cnt[b][ch] = AllBitsSet)
             /\ WDstats.EvLost_cnt[b][ch] # AllBitsSet
                => /\ IsFinite(lost)
                   /\ ~FracLess(lost, FracZero)
                   /\ ~FracGreater(lost, in) ]_vars

\* C32: after every UpdateStatistics, for every enabled channel, DeadTime is
\* within 0 .. 1; it is 1 - (EvInput_rate - EvLost_rate) / EvInput_rate when
\* the input rate is positive and the lost rate is not -1, and 0 otherwise.
C32_DeadTimeFormula ==
    [][ Updates =>
          \A bc \in EnabledChannels :
             LET b == bc[1]  ch == bc[2]
                 lost == WDstats'.EvLost_rate[b][ch]
                 in   == WDstats'.EvInput_rate[b][ch]
                 dead == WDstats'.DeadTime[b][ch] IN
             /\ IsFinite(dead)
             /\ ~FracLess(dead, FracZero) /\ ~FracGreater(dead, FracOne)
             /\ dead = IF FracGreater(in, FracZero) /\ lost # NotAvailable
                       THEN FracSub(FracOne, FracDiv(FracSub(in, lost), in))
                       ELSE FracZero ]_vars

\* UpdateStatistics has just been called for a channel with an input rate of
\* 1000 whose lost triggers are as many as the input rate allows: the dead
\* time is 1
C32_Witness ==
    /\ op.name = "update"
    /\ \E bc \in EnabledChannels :
          LET b == bc[1]  ch == bc[2] IN
          /\ WDstats.EvInput_rate[b][ch] = FracInt(1000)
          /\ WDstats.EvLost_rate[b][ch] = FracInt(1000)
          /\ WDstats.EvLost_pcnt[b][ch] = 1200
          /\ WDstats.DeadTime[b][ch] = FracOne

-----------------------------------------------------------------------------
(***************************************************************************)
(* Properties of the acquisition loop with synchronization (checked under *)
(* SpecSync).                                                             *)
(***************************************************************************)
\* C23: whatever the buffers hold and however many events a poll brings,
\* MakeSpaceBuffers followed by EventsDecoding never gives ERR_BUFFERS: the
\* loop goes on to the processing and never leaves with an error.
C23_FullBufferNotFatal ==
    /\ pc # "quit"
    /\ op.name = "decode" => op.ret = 0 /\ pc = "process"

\* a poll has brought an event to a board whose buffer was full: the oldest
\* event was dropped (no round has counted a lost event, the buffer of the
\* other board being empty) and the buffer is full again
C23_Witness ==
    /\ op.name = "decode" /\ pc = "process"
    /\ \E bd \in Boards :
          /\ WDBuff_full(WDbuff, bd) = 1
          /\ WDstats.EvLost_cnt[bd][0] > 0
          /\ \E other \in Boards : WDstats.EvProcessed_cnt[other][0] = 0
                                    /\ WDBuff_empty(WDbuff, other) = 1

\* C24 as stated: the round that makes UnSyncEv_cnt non-zero writes the
\* warning, and the warning is written only by such a round, so once in a
\* run.
C24_WarnsOnFirstUnsync ==
    [][ MsgLog' = MsgLog + (IF WDstats.UnSyncEv_cnt = 0 /\ WDstats'.UnSyncEv_cnt # 0
                            THEN 1 ELSE 0) ]_vars

\* C25 as stated: when ProcessesSynchronizedEvents has returned, the buffer
\* of at least one board is empty.
C25_ReturnsWithEmptyBuffer ==
    (pc = "read" /\ op.name \in {"sync", "round"}) =>
        \E bd \in Boards : WDBuff_empty(WDbuff, bd) = 1

\* C26: in every round every board whose peeked time stamp is the least one is
\* marked, so at least one board is marked and the round discards at least
\* one event.
C26_MinimumAlwaysMatched ==
    [][ RoundDone =>
          /\ \A bd \in Boards :
                (\A other \in Boards : loc'.tdc[bd] <= loc'.tdc[other]) => loc'.event_good[bd]
          /\ CountSync(loc'.event_good) >= 1
          /\ \E bd \in Boards : OneDiscarded(bd) ]_vars

\* a round in which both boards hold the least time stamp, the second of the
\* events of board 0 being 41 ticks after the first of the run
C26_Witness ==
    /\ op.name = "round" /\ op.ret # 0
    /\ \A bd \in Boards : loc.tdc[bd] = 41 /\ loc.event_good[bd]
    /\ WDstats.EvProcessed_cnt[0][0] = 2

\* C36: in a call of ProcessesSynchronizedEvents that found min_buff_len > 0,
\* every iteration of the loop finds an event in the buffer of every board
\* (the return of line 604 is never taken), removes at most one event from
\* each board, and the function returns after exactly min_buff_len
\* iterations; so no board loses more than min_buff_len events in the call.
C36_RoundsNeverAbort ==
    [][ pc = "round" =>
          /\ \A bd \in Boards : WDBuff_empty(WDbuff, bd) = 0
          /\ op'.name = "round" /\ op'.ret # 0
          /\ loc.i < loc.min_buff_len
          /\ loc'.i = loc.i + 1
          /\ loc'.min_buff_len = loc.min_buff_len
          /\ (pc' = "read") <=> (loc'.i = loc.min_buff_len)
          /\ pc' \in {"read", "round"}
          /\ \A bd \in Boards : OneDiscarded(bd) \/ NoneDiscarded(bd) ]_vars

\* ProcessesSynchronizedEvents has returned after two iterations
C36_Witness ==
    /\ pc = "read" /\ op.name = "round" /\ op.ret = 1
    /\ loc.min_buff_len = 2 /\ loc.i = 2

\* the number of events MakeSpaceBuffers has to remove from board bd before n
\* new events are stored
MustRemove(buff, bd, n) ==
    IF WDBuff_free_space(buff, bd) >= n THEN 0 ELSE Min(n, WDBuff_used_space(buff, bd))

\* C37: for a poll that brings at most EVT_BUF_SIZE-1 events from a board,
\* MakeSpaceBuffers removes nothing from the board when its free space is
\* enough, otherwise the min(NumEvents, used space) oldest events, and adds
\* that number to EvLost_cnt and EvProcessed_cnt of the board; EventsDecoding
\* then stores every event of the poll and returns no error.
C37_MakeSpaceThenDecode ==
    [][ (pc = "read" /\ op'.name = "decode"
         /\ \A bd \in Boards : WDcfg'.NumEvents[bd] <= EVT_BUF_SIZE - 1) =>
          /\ op'.ret = 0
          /\ \A bd \in Boards :
                LET n == WDcfg'.NumEvents[bd]
                    r == MustRemove(WDbuff, bd, n) IN
                /\ WDbuff'.tail[bd] = (WDbuff.tail[bd] + r) % EVT_BUF_SIZE
                /\ WDbuff'.head[bd] = (WDbuff.head[bd] + n) % EVT_BUF_SIZE
                /\ WDBuff_used_space(WDbuff', bd) = WDBuff_used_space(WDbuff, bd) - r + n
                /\ \A ch \in Channels :
                      /\ WDstats'.EvLost_cnt[bd][ch] = WDstats.EvLost_cnt[bd][ch] + r
                      /\ WDstats'.EvProcessed_cnt[bd][ch] = WDstats.EvProcessed_cnt[bd][ch] + r ]_vars

\* a poll has brought two events to a board that held two and had room for
\* one: both old events were removed and counted, both new ones are stored
C37_Witness ==
    /\ op.name = "decode" /\ pc = "process"
    /\ \E bd \in Boards :
          /\ WDcfg.NumEvents[bd] = 2
          /\ WDBuff_used_space(WDbuff, bd) = 2
          /\ \A ch \in Channels : /\ WDstats.EvLost_cnt[bd][ch] = 2
                                   /\ WDstats.EvProcessed_cnt[bd][ch] = 2

-----------------------------------------------------------------------------
(***************************************************************************)
(* Properties of the readout loop without synchronization (checked under  *)
(* SpecRun).                                                              *)
(***************************************************************************)
\* the counters and time stamps of the channels and the run statistics are 0
CountersZero ==
    /\ \A f \in {"EvRead_cnt", "EvRead_pcnt", "EvFilt_cnt", "EvFilt_pcnt",
                  "EvLost_cnt", "EvLost_pcnt", "EvProcessed_cnt", "EvProcessed_pcnt",
                  "LatestReadTstamp", "PrevReadTstamp"} :
          \A bd \in Boards : \A ch \in Channels : WDstats[f][bd][ch] = 0
    /\ WDstats.UnSyncEv_cnt = 0
    /\ WDstats.TotEvRead_cnt = 0

\* C22 as stated: when a run starts or starts again, the counters of the
\* channels, their snapshots, the latest time stamps and the run statistics
\* are 0 before the first event of the run is decoded.
C22_CountersZeroAtRunStart ==
    (pc = "read" /\ op.name = "start") => CountersZero

\* C27 as stated, for the unsynchronized drain: after every step of the board
\* loop of ProcessesUnsynchronizedEvents that handled an event, the TOF start
\* board, and no other board, has a RefEvent that is not NULL, and it is the
\* event of that board peeked in the current iteration.
C27_OneRefEventPerStep ==
    (op.name = "drain" /\ op.ret = 1) =>
        /\ WDcfg.RefEvent[WDcfg.TOFstartBoard] # NULL
        /\ loc.events[WDcfg.TOFstartBoard] # -1
        /\ WDcfg.RefEvent[WDcfg.TOFstartBoard] = <<loc.events[WDcfg.TOFstartBoard]>>
        /\ \A bd \in Boards \ {WDcfg.TOFstartBoard} : WDcfg.RefEvent[bd] = NULL

\* C28: a step of ProcessesUnsynchronizedEvents removes the oldest event of
\* its board, if the board has one, and nothing else; and one call never
\* removes more events from a board than the NumEvents of that board in the
\* current poll.
C28_DrainsOwnEvents ==
    [][ (pc = "drain" /\ op'.name = "drain") =>
          LET bd == op'.bd IN
          /\ IF WDBuff_empty(WDbuff, bd) = 1
             THEN NoneDiscarded(bd) /\ op'.slot = -1
             ELSE OneDiscarded(bd) /\ op'.slot = WDbuff.tail[bd]
          /\ \A other \in Boards \ {bd} : NoneDiscarded(other)
          /\ \A b \in Boards : loc'.taken[b] <= WDcfg.NumEvents[b] ]_vars

\* ProcessesUnsynchronizedEvents has returned after a poll in which board 1
\* delivered two events and board 0 one: one and two events were removed
C28_Witness ==
    /\ pc = "stats" /\ op.name = "drained"
    /\ WDcfg.NumEvents[0] = 1 /\ WDcfg.NumEvents[1] = 2
    /\ loc.taken[0] = 1 /\ loc.taken[1] = 2
    /\ \A bd \in Boards : WDBuff_empty(WDbuff, bd) = 1

\* the cursors of the ring buffers of all boards
Cursors(buff) == <<buff.head, buff.tail, buff.tmp_pos>>

\* the cumulative counters of the statistics
Cumulative(stats) ==
    <<stats.EvRead_cnt, stats.EvFilt_cnt, stats.EvLost_cnt, stats.EvProcessed_cnt,
      stats.UnSyncEv_cnt>>

C35_StopKeepsState ==
    [][ (WDrun'.AcqRun = 0 /\ op'.name # "key_reset") =>
          /\ Cursors(WDbuff') = Cursors(WDbuff)
          /\ Cumulative(WDstats') = Cumulative(WDstats) ]_vars

\* the statistics have been updated in the first pass after a stop, with
\* events counted and the cursors of a board away from 0
C35_Witness ==
    /\ op.name = "stopped" /\ op.arg = 1
    /\ WDrun.AcqRun = 0
    /\ \E bd \in Boards :
          /\ WDbuff.head[bd] # 0
          /\ \E ch \in Channels :
                /\ WDcfg.ChannelEnable[bd][ch]
                /\ WDstats.EvRead_cnt[bd][ch] > 0
                /\ WDstats.EvProcessed_cnt[bd][ch] > 0
                /\ WDstats.EvRead_pcnt[bd][ch] = WDstats.EvRead_cnt[bd][ch]

-----------------------------------------------------------------------------
(***************************************************************************)
(* Properties of the readout loop in either mode (checked under SpecLoop). *)
(***************************************************************************)
\* the step calls UpdateStatistics: the update at the end of a pass, or the
\* one of the first pass after a stop
UpdatesInLoop == op'.name = "update" \/ (op'.name = "stopped" /\ op'.arg # 0)

\* C33: every UpdateStatistics leaves in MatchingRatio of every enabled
\* channel the events accepted over the events processed since the previous
\* update (the counts the previous update or the reset saved in EvFilt_pcnt
\* and EvProcessed_pcnt, which no other step changes), or 0 when none was
\* processed since; and in every state MatchingRatio is within 0 .. 1.
C33_MatchingRatio ==
    /\ [][ \A bc \in EnabledChannels :
             LET b == bc[1]  ch == bc[2]
                 df == WDstats.EvFilt_cnt[b][ch] - WDstats.EvFilt_pcnt[b][ch]
                 dp == WDstats.EvProcessed_cnt[b][ch] - WDstats.EvProcessed_pcnt[b][ch] IN
             /\ UpdatesInLoop =>
                   /\ WDstats'.MatchingRatio[b][ch] = IF dp > 0 THEN Frac(df, dp) ELSE FracZero
                   /\ WDstats'.EvFilt_pcnt[b][ch] = WDstats.EvFilt_cnt[b][ch]
                   /\ WDstats'.EvProcessed_pcnt[b][ch] = WDstats.EvProcessed_cnt[b][ch]
             /\ op'.name = "key_reset" =>
                   /\ WDstats'.EvFilt_pcnt[b][ch] = 0 /\ WDstats'.EvFilt_cnt[b][ch] = 0
                   /\ WDstats'.EvProcessed_pcnt[b][ch] = 0 /\ WDstats'.EvProcessed_cnt[b][ch] = 0
             /\ (~UpdatesInLoop /\ op'.name # "key_reset") =>
                   /\ WDstats'.EvFilt_pcnt[b][ch] = WDstats.EvFilt_pcnt[b][ch]
                   /\ WDstats'.EvProcessed_pcnt[b][ch] = WDstats.EvProcessed_pcnt[b][ch]
                   /\ WDstats'.MatchingRatio[b][ch] = WDstats.MatchingRatio[b][ch] ]_vars
    /\ [](\A bc \in EnabledChannels :
             LET r == WDstats.MatchingRatio[bc[1]][bc[2]] IN
             IsFinite(r) /\ ~FracLess(r, FracZero) /\ ~FracGreater(r, FracOne))

\* the second UpdateStatistics of a run: one event was accepted and processed
\* before the first update, two were processed and one of them accepted
\* since; the ratio is 1/2, where the counts of the whole run give 2/3
C33_Witness ==
    /\ op.name = "update"
    /\ \E bc \in EnabledChannels :
          LET b == bc[1]  ch == bc[2] IN
          /\ WDstats.EvFilt_cnt[b][ch] = 2
          /\ WDstats.EvProcessed_cnt[b][ch] = 3
          /\ WDstats.EvProcessed_pcnt[b][ch] = 3
          /\ WDstats.MatchingRatio[b][ch] = Frac(1, 2)

\* the events the step brings to the buffer of board bd
Decoded(bd) == IF op'.name = "decode" THEN WDcfg'.NumEvents[bd] ELSE 0

\* the events the step takes from the buffer of board bd
Removed(bd) ==
    WDBuff_used_space(WDbuff, bd) + Decoded(bd) - WDBuff_used_space(WDbuff', bd)

\* C38 as stated: MakeSpaceBuffers, ProcessesSynchronizedEvents and
\* ProcessesUnsynchronizedEvents add to EvProcessed_cnt of every enabled
\* channel the events they take from the buffer of its board, and between two
\* resets of the statistics every step adds to EvProcessed_cnt the events it
\* takes from the buffer, so that the counter is the number of events removed.
C38_ProcessedCountsRemoved ==
    [][ op'.name # "key_reset" =>
          \A bc \in EnabledChannels :
             WDstats'.EvProcessed_cnt[bc[1]][bc[2]]
                = WDstats.EvProcessed_cnt[bc[1]][bc[2]] + Removed(bc[1]) ]_vars

\* C39: in every state, for every enabled channel, the events accepted and
\* the events lost are together no more than the events processed.
C39_AcceptedOrLostOnce ==
    \A bc \in EnabledChannels :
       WDstats.EvFilt_cnt[bc[1]][bc[2]] + WDstats.EvLost_cnt[bc[1]][bc[2]]
          <= WDstats.EvProcessed_cnt[bc[1]][bc[2]]

\* a call of ProcessesSynchronizedEvents has returned and a channel has
\* counted an accepted event (a matched round) and a lost one (a round in
\* which another board had no matching event): two processed
C39_Witness ==
    /\ op.name = "sync"
    /\ \E bc \in EnabledChannels :
          LET b == bc[1]  ch == bc[2] IN
          /\ WDstats.EvFilt_cnt[b][ch] = 1
          /\ WDstats.EvLost_cnt[b][ch] = 1
          /\ WDstats.EvProcessed_cnt[b][ch] = 2

=============================================================================
